---- MODULE Spec2Model ----
(***************************************************************************)
(* Bidirectional synchronisation engine between Microsoft To Do (via       *)
(* Microsoft Graph) and GitHub Issues: the GitHub webhook ingestor, the    *)
(* To Do change-notification ingestor, the structural list resolver and    *)
(* the idempotency guard.                                                  *)
(*                                                                         *)
(* Text is modelled as a sequence of tokens.  A token is either one        *)
(* character that the code inspects ("/", a digit, a blank, a newline) or  *)
(* a word that the code only ever treats as a whole (a display name, the   *)
(* marker, the host prefix).  Concatenation of text is concatenation of    *)
(* sequences.                                                              *)
(***************************************************************************)
EXTENDS Integers, Sequences, FiniteSets, TLC

\* ---------------------------------------------------------------- bounds
MaxTasks == 2
MaxIssues == 2
MaxLists == 2
MaxRefreshes == 2
MaxClock == 2

\* ---------------------------------------------------------------- text
ISSUE_LINK_MARKER == "GitHub Issue:"
GITHUB_HOST == "https://github.com/"
SP == " "
NL == "\n"
SLASH == "/"
ISSUES_WORD == "issues"
FOOTER_RULE == "---"
FOOTER_TEXT == "*Created from Microsoft To Do task*"

DigitTokens == <<"0", "1", "2", "3", "4", "5", "6", "7", "8", "9">>

IsDigit(tok) == \E d \in 1..10 : DigitTokens[d] = tok

IsWhitespace(tok) == tok \in {SP, NL}

HasSlash(tok) == tok \in {SLASH, GITHUB_HOST}

\* Number.prototype.toString as used by GitHub when it renders html_url
RECURSIVE Decimal(_)
Decimal(n) == IF n < 10 THEN <<DigitTokens[n + 1]>>
              ELSE Decimal(n \div 10) \o <<DigitTokens[(n % 10) + 1]>>

\* String.prototype.trim
RECURSIVE TrimLeft(_)
TrimLeft(s) == IF s = <<>> THEN s
               ELSE IF IsWhitespace(Head(s)) THEN TrimLeft(Tail(s)) ELSE s

RECURSIVE TrimRight(_)
TrimRight(s) == IF s = <<>> THEN s
                ELSE IF IsWhitespace(s[Len(s)]) THEN TrimRight(SubSeq(s, 1, Len(s) - 1)) ELSE s

Trim(s) == TrimRight(TrimLeft(s))

\* String.prototype.includes
Includes(s, sub) ==
  \E i \in 0..(Len(s) - Len(sub)) : SubSeq(s, i + 1, i + Len(sub)) = sub

\* html_url of issue number n of repository owner/repo, as GitHub renders it
IssueUrl(owner, repo, n) ==
  <<GITHUB_HOST, owner, SLASH, repo, SLASH, ISSUES_WORD, SLASH>> \o Decimal(n)

\* ------------------------------------------------- integrity/types.ts
SmartGoalPhase == {"plan", "track", "complete", "archive"}

\* mutant: an archived goal counts as not begun
PHASE_TO_TODO_STATUS_archiveReset ==
  [p \in {"plan", "track", "complete", "archive"} |->
     CASE p = "plan" -> "notStarted"
       [] p = "track" -> "inProgress"
       [] p = "complete" -> "completed"
       [] p = "archive" -> "notStarted"]

PHASE_TO_TODO_STATUS ==
  [p \in {"plan", "track", "complete", "archive"} |->
     CASE p = "plan" -> "notStarted"
       [] p = "track" -> "inProgress"
       [] p = "complete" -> "completed"
       [] p = "archive" -> "completed"]

PHASE_TO_GITHUB_STATE ==
  [p \in {"plan", "track", "complete", "archive"} |->
     CASE p = "plan" -> "open"
       [] p = "track" -> "open"
       [] p = "complete" -> "closed"
       [] p = "archive" -> "closed"]

\* ------------------------------------------------- integrity/sync.ts
GitHubIssueAction == {"opened", "closed", "reopened"}

githubActionToGoalPhase(action) ==
  CASE action \in {"opened", "reopened"} -> "plan"
    [] action = "closed" -> "complete"

githubActionToTodoStatus(action) == PHASE_TO_TODO_STATUS[githubActionToGoalPhase(action)]

\* mutant: the task body is the issue body alone, the back-reference forgotten
buildTaskBodyFromIssue_noLink(issueUrl, issueBody) == Trim(issueBody)

buildTaskBodyFromIssue(issueUrl, issueBody) ==
  LET content == Trim(issueBody)
  IN IF content # <<>>
     THEN <<ISSUE_LINK_MARKER, SP>> \o issueUrl \o <<NL, NL>> \o content
     ELSE <<ISSUE_LINK_MARKER, SP>> \o issueUrl

buildIssueBodyFromTask(taskBody) ==
  LET content == Trim(taskBody)
  IN IF content # <<>>
     THEN content \o <<NL, NL, FOOTER_RULE, NL, FOOTER_TEXT>>
     ELSE <<FOOTER_TEXT>>

\* mutant: the body is trimmed before the link is appended
appendIssueLink_trimmed(existingBody, issueUrl) ==
  IF Trim(existingBody) # <<>>
  THEN Trim(existingBody) \o <<NL, NL, ISSUE_LINK_MARKER, SP>> \o issueUrl
  ELSE <<ISSUE_LINK_MARKER, SP>> \o issueUrl

appendIssueLink(existingBody, issueUrl) ==
  IF existingBody # <<>>
  THEN existingBody \o <<NL, NL, ISSUE_LINK_MARKER, SP>> \o issueUrl
  ELSE <<ISSUE_LINK_MARKER, SP>> \o issueUrl

\* mutant: the pattern anchored at the start of the body
GITHUB_ISSUE_URL_PATTERN_anchored(s) ==
  \E j \in 1..Len(s), k \in 1..Len(s) :
    /\ s[1] = GITHUB_HOST
    /\ 1 < j
    /\ \A m \in 2..j : ~HasSlash(s[m])
    /\ j + 1 < k
    /\ s[j + 1] = SLASH
    /\ \A m \in (j + 2)..k : ~HasSlash(s[m])
    /\ k + 4 <= Len(s)
    /\ s[k + 1] = SLASH
    /\ s[k + 2] = ISSUES_WORD
    /\ s[k + 3] = SLASH
    /\ IsDigit(s[k + 4])

\* GITHUB_ISSUE_URL_PATTERN.test(s):
\*   https://github.com/ [^/]+ / [^/]+ /issues/ \d+   found anywhere in s
GITHUB_ISSUE_URL_PATTERN(s) ==
  \E i \in 1..Len(s), j \in 1..Len(s), k \in 1..Len(s) :
    /\ s[i] = GITHUB_HOST
    /\ i < j
    /\ \A m \in (i + 1)..j : ~HasSlash(s[m])
    /\ j + 1 < k
    /\ s[j + 1] = SLASH
    /\ \A m \in (j + 2)..k : ~HasSlash(s[m])
    /\ k + 4 <= Len(s)
    /\ s[k + 1] = SLASH
    /\ s[k + 2] = ISSUES_WORD
    /\ s[k + 3] = SLASH
    /\ IsDigit(s[k + 4])

hasGitHubIssueLink(bodyContent) == GITHUB_ISSUE_URL_PATTERN(bodyContent)

\* ------------------------------------------------------------ universe
NoSecret == ""
NoGroup == 0

\* secret typed into the GitHub webhook settings and the clientState given
\* when the Graph subscription was created
GhSecret == "s3cret"
GraphSecret == "cs3cret"
WrongSecret == "guess"

Owners == {"acme", "other"}
RepoOf(owner) == IF owner = "acme" THEN "widgets" ELSE "thing"
UserTaskTitle == "buy milk"
UserIssueTitle == "fix bug"
UserTaskBody == <<"note", NL>>
UserIssueBody == <<SP, "desc">>

VARIABLES
  env,          \* process.env: GITHUB_WEBHOOK_SECRET, GRAPH_SUBSCRIPTION_SECRET, GITHUB_TOKEN
  listGroups,   \* Microsoft To Do list groups (id = index)
  lists,        \* Microsoft To Do lists (id = index)
  tasks,        \* Microsoft To Do tasks (id = index)
  issues,       \* GitHub issues (number = index)
  ghQueue,      \* GitHub webhook deliveries not yet made
  notifQueue,   \* Graph change notifications not yet delivered
  running,      \* TRUE while a todoWebhookHandler invocation awaits its entries
  jobs,         \* processNotification calls of the running invocation
  linkWritten,  \* history: tasks whose back-reference write-back succeeded
  last,         \* the operation performed by the latest step and its result
  tokens,       \* TokenManager: cachedToken, the token env vars, the clock against expiresAt
  call,         \* the GraphClient.request / GitHubClient.request call under way
  previous,     \* history: the call that returned before this one
  now,          \* Date.now(), in minutes
  getters,      \* the getTokens calls under way on the one TokenManager
  renewer,      \* subscription-renew: its app setting, its run, the leases at Graph
  example       \* a pure function of the integrity module, its arguments and its result

clientVars == <<tokens, call, previous>>

serviceVars == <<now, getters, renewer, example>>

world == <<env, listGroups, lists, tasks, issues, ghQueue, notifQueue, running, jobs,
           linkWritten>>

vars == <<env, listGroups, lists, tasks, issues, ghQueue, notifQueue, running, jobs,
          linkWritten, last, tokens, call, previous, now, getters, renewer, example>>

Truthy(s) == s # NoSecret

Min(S) == CHOOSE x \in S : \A y \in S : x <= y

\* ------------------------------------------------ Graph and GitHub calls
\* Every outbound call either succeeds or fails (network error, non-2xx
\* answer, no access token): GraphClient.request then returns null and
\* GitHubClient.request throws.  The calls of one invocation that fail are
\* an input of the invocation, a subset of these kinds.

\* the sets of failing calls, and the outcomes of one call, that an
\* invocation is run with: faults = FALSE runs it with every call succeeding,
\* faults = TRUE also with one kind of call failing
Fails(faults, kinds) == IF faults THEN {{}} \cup { {k} : k \in kinds } ELSE {{}}
Outcomes(faults) == IF faults THEN BOOLEAN ELSE {TRUE}

\* GraphClient.request without an access token returns null before any fetch:
\* every Graph call of the deployment fails
GraphOutcomes(faults) == IF env.MS_TODO_TOKENS THEN Outcomes(faults) ELSE {FALSE}

OpenedCallKinds == {"GET listGroups", "GET group lists", "POST list", "POST task"}
ClosedCallKinds == {"GET lists", "GET tasks", "PATCH task status"}
CallKindsOf(action) == IF action = "opened" THEN OpenedCallKinds ELSE ClosedCallKinds

Notification(changeType, clientState, listId, taskId) ==
  [changeType |-> changeType, clientState |-> clientState, listId |-> listId, taskId |-> taskId]

\* ------------------------------------------- github-webhook: requests
\* GitHub numbers the issues and pull requests of a repository from one
\* counter: the second issue of the model is number 12
IssueNumber(n) == IF n = 1 THEN 1 ELSE 10 + n

Hmac(secret, rawBody) == [key |-> secret, msg |-> rawBody]

\* the 'issues' event GitHub sends for issue number `number`
Payload(action, issue, number) ==
  [action |-> action, issue |-> [number |-> number, title |-> issue.title,
              html_url |-> IssueUrl(issue.owner, issue.repo, number),
              body |-> issue.body],
   json |-> TRUE,
   repository |-> [owner |-> issue.owner, present |-> TRUE, name |-> issue.repo],
   missing |-> {}]

\* what a property that is not there reads as (undefined), and what it
\* becomes inside a template literal or as the argument of String.includes
NoAction == ""
Undefined == <<"undefined">>

\* the same JSON document with one property left out
Without(payload, field) ==
  LET marked == [payload EXCEPT !.missing = @ \cup {field}]
  IN IF field = "action" THEN [marked EXCEPT !.action = NoAction]
     ELSE IF field = "html_url" THEN [marked EXCEPT !.issue.html_url = Undefined]
     ELSE marked

\* a body that JSON.parse rejects
NotJson(payload) == [payload EXCEPT !.json = FALSE]

\* an issue as somebody on GitHub writes it
UserIssue(owner) ==
  [owner |-> owner, repo |-> RepoOf(owner), title |-> UserIssueTitle, body |-> UserIssueBody,
   state |-> "open"]

\* the events GitHub can send about the repositories that carry the webhook:
\* issues 1 and 12 of acme/widgets and issue 1 of other/thing
GithubPayloads(actions) ==
  { Payload(a, UserIssue(i[1]), i[2]) :
      a \in actions, i \in {<<"acme", 1>>, <<"acme", 12>>, <<"other", 1>>} }

\* what somebody without the secret can post: a payload about acme/widgets#1
ForgedPayload(action) == Payload(action, UserIssue("acme"), 1)

\* digest("hex") of SHA-256: 64 hexadecimal digits
HEX_LENGTH == 64

\* a signature header: its first characters, the digest whose hexadecimal
\* digits follow, the position of a digit that was replaced by another
\* (0: none), and the number of digits present
SigHeader(prefix, digest, changed, length) ==
  [prefix |-> prefix, digest |-> digest, changed |-> changed, length |-> length]

SignedBy(secret, rawBody) == SigHeader("sha256=", Hmac(secret, rawBody), 0, HEX_LENGTH)

\* no x-hub-signature-256 header: request.headers.get gives null
MissingHeader == SigHeader("", Hmac(NoSecret, ForgedPayload("opened")), 0, 0)

\* no header, a signature made with a guessed secret, and the genuine
\* signature of another body
BadHeaders(rawBody) ==
  { MissingHeader,
    SignedBy(WrongSecret, rawBody),
    SignedBy(GhSecret, ForgedPayload("edited")) }

GithubRequest(event, sig, rawBody) == [rawBody |-> rawBody, event |-> event, sig |-> sig]

\* ------------------------------------------- github-webhook: helpers
\* Buffer.from(header).length
ByteLength(sigHeader) ==
  (CASE sigHeader.prefix \in {"sha256=", "sha256:"} -> 7
     [] sigHeader.prefix = "sha1=" -> 5
     [] OTHER -> 0) + sigHeader.length

\* crypto.timingSafeEqual: a RangeError when the byte lengths differ
timingSafeEqual(a, b) ==
  IF ByteLength(a) # ByteLength(b) THEN [threw |-> TRUE, value |-> FALSE]
  ELSE [threw |-> FALSE, value |-> a = b]

\* mutant: the digest is that of the secret alone, whatever the body
verifySignature_anyBody(secret, rawBody, sigHeader) ==
  IF sigHeader.prefix # "sha256=" THEN FALSE
  ELSE LET compared == timingSafeEqual(SignedBy(secret, sigHeader.digest.msg), sigHeader)
       IN IF compared.threw THEN FALSE ELSE compared.value

verifySignature(secret, rawBody, sigHeader) ==
  IF sigHeader.prefix # "sha256=" THEN FALSE
  ELSE LET expected == SignedBy(secret, rawBody)
           compared == timingSafeEqual(expected, sigHeader)
       IN IF compared.threw THEN FALSE ELSE compared.value

\* mutant: the new list is posted to /me/todo/lists, outside the group
findOrCreateListForRepo_ungrouped(owner, repo, fails) ==
  LET matching == { g \in 1..Len(listGroups) : listGroups[g].displayName = owner }
      existing == { l \in 1..Len(lists) : lists[l].displayName = repo }
  IN IF matching = {} \/ "GET listGroups" \in fails
     THEN [lists |-> lists, listId |-> 0, calls |-> {"GET listGroups"}]
     ELSE IF existing # {}
     THEN [lists |-> lists, listId |-> Min(existing),
           calls |-> {"GET listGroups", "GET group lists"}]
     ELSE [lists |-> Append(lists, [displayName |-> repo, groupId |-> NoGroup]),
           listId |-> Len(lists) + 1,
           calls |-> {"GET listGroups", "GET group lists", "POST list"}]

\* mutant: an owner without a group of its own falls back to the first group
findOrCreateListForRepo_anyGroup(owner, repo, fails) ==
  LET matching == { g \in 1..Len(listGroups) : listGroups[g].displayName = owner }
      group == IF matching = {} THEN 1 ELSE Min(matching)
      existing == { l \in 1..Len(lists) :
                      lists[l].groupId = group /\ lists[l].displayName = repo }
  IN IF listGroups = <<>> \/ "GET listGroups" \in fails
     THEN [lists |-> lists, listId |-> 0, calls |-> {"GET listGroups"}]
     ELSE IF existing # {}
     THEN [lists |-> lists, listId |-> Min(existing),
           calls |-> {"GET listGroups", "GET group lists"}]
     ELSE [lists |-> Append(lists, [displayName |-> repo, groupId |-> group]),
           listId |-> Len(lists) + 1,
           calls |-> {"GET listGroups", "GET group lists", "POST list"}]

\* result: the list id (0 for null), the lists afterwards, the calls made
findOrCreateListForRepo(owner, repo, fails) ==
  LET matching == { g \in 1..Len(listGroups) : listGroups[g].displayName = owner }
  IN IF "GET listGroups" \in fails
     THEN [lists |-> lists, listId |-> 0, calls |-> {"GET listGroups"}]
     ELSE IF matching = {}
     THEN [lists |-> lists, listId |-> 0, calls |-> {"GET listGroups"}]
     ELSE
       LET group == Min(matching)
           inGroup == IF "GET group lists" \in fails THEN {}
                      ELSE { l \in 1..Len(lists) : lists[l].groupId = group }
           existing == { l \in inGroup : lists[l].displayName = repo }
       IN IF existing # {}
          THEN [lists |-> lists, listId |-> Min(existing),
                calls |-> {"GET listGroups", "GET group lists"}]
          ELSE IF "POST list" \in fails
          THEN [lists |-> lists, listId |-> 0,
                calls |-> {"GET listGroups", "GET group lists", "POST list"}]
          ELSE [lists |-> Append(lists, [displayName |-> repo, groupId |-> group]),
                listId |-> Len(lists) + 1,
                calls |-> {"GET listGroups", "GET group lists", "POST list"}]

\* result: found, listId, taskId, the calls made
findLinkedTask(issueUrl, fails) ==
  LET hits == { t \in 1..Len(tasks) :
                  /\ tasks[t].status # "completed"
                  /\ Includes(tasks[t].body, issueUrl) }
      hitLists == { tasks[t].listId : t \in hits }
  IN IF "GET lists" \in fails
     THEN [listId |-> 0, taskId |-> 0, calls |-> {"GET lists"}, found |-> FALSE]
     ELSE IF "GET tasks" \in fails \/ hits = {}
     THEN [listId |-> 0, taskId |-> 0, calls |-> {"GET lists"} \cup (IF lists = <<>> THEN {} ELSE {"GET tasks"}),
           found |-> FALSE]
     ELSE LET l == Min(hitLists)
              t == Min({ u \in hits : tasks[u].listId = l })
          IN [listId |-> l, taskId |-> t, calls |-> {"GET lists", "GET tasks"}, found |-> TRUE]

\* ------------------------------------------- github-webhook: handler
\* the handler throws (a property of undefined is read); the Functions host
\* ends the invocation with an error
UnhandledStatus == 500
Unhandled == "TypeError"

Reply(status, body, calls, listId, newLists, newTasks, newNotifs) ==
  [lists |-> newLists, tasks |-> newTasks, listId |-> listId, body |-> body,
   calls |-> calls, status |-> status, notifs |-> newNotifs]

OnOpened(payload, fails) ==
  LET owner == payload.repository.owner
      repo == payload.repository.name
  IN IF ~payload.repository.present \/ owner = "" \/ repo = ""
     THEN Reply(200, "Repository info missing", {}, 0, lists, tasks, {})
     ELSE
       LET found == findOrCreateListForRepo(owner, repo, fails)
       IN IF found.listId = 0
          THEN Reply(200, "No matching list group", found.calls, 0, found.lists, tasks, {})
          ELSE
            IF "issue" \in payload.missing
            THEN Reply(UnhandledStatus, Unhandled, found.calls, 0, found.lists, tasks, {})
            ELSE
            LET taskBody == buildTaskBodyFromIssue(payload.issue.html_url, payload.issue.body)
                task == [listId |-> found.listId, title |-> payload.issue.title,
                         body |-> taskBody, status |-> "notStarted"]
            IN IF "POST task" \in fails
               THEN Reply(200, "Task created", found.calls \cup {"POST task"},
                          found.listId, found.lists, tasks, {})
               ELSE Reply(200, "Task created", found.calls \cup {"POST task"},
                          found.listId, found.lists, Append(tasks, task),
                          {Notification("created", GraphSecret, found.listId, Len(tasks) + 1)})

OnClosedOrReopened(payload, fails) ==
  LET linked == findLinkedTask(payload.issue.html_url, fails)
  IN IF "issue" \in payload.missing
     THEN Reply(UnhandledStatus, Unhandled, {}, 0, lists, tasks, {})
     ELSE IF ~linked.found
     THEN Reply(200, "No linked task found", linked.calls, 0, lists, tasks, {})
     ELSE
       LET newStatus == githubActionToTodoStatus(payload.action)
       IN IF "PATCH task status" \in fails
          THEN Reply(200, "Task updated", linked.calls \cup {"PATCH task status"},
                     linked.listId, lists, tasks, {})
          ELSE Reply(200, "Task updated", linked.calls \cup {"PATCH task status"},
                     linked.listId, lists, [tasks EXCEPT ![linked.taskId].status = newStatus], {})

\* mutant: the x-github-event header is not looked at
githubWebhookHandler_anyEvent(request, fails) ==
  LET webhookSecret == env.GITHUB_WEBHOOK_SECRET
      payload == request.rawBody
  IN IF Truthy(webhookSecret) /\ ~verifySignature(webhookSecret, request.rawBody, request.sig)
     THEN Reply(401, "Signature mismatch", {}, 0, lists, tasks, {})
     ELSE IF ~payload.json
     THEN Reply(400, "Invalid JSON", {}, 0, lists, tasks, {})
     ELSE IF payload.action = "opened"
     THEN OnOpened(payload, fails)
     ELSE IF payload.action \in {"closed", "reopened"}
     THEN OnClosedOrReopened(payload, fails)
     ELSE Reply(200, "Action ignored", {}, 0, lists, tasks, {})

githubWebhookHandler(request, fails) ==
  LET webhookSecret == env.GITHUB_WEBHOOK_SECRET
      payload == request.rawBody
  IN IF Truthy(webhookSecret) /\ ~verifySignature(webhookSecret, request.rawBody, request.sig)
     THEN Reply(401, "Signature mismatch", {}, 0, lists, tasks, {})
     ELSE IF ~payload.json
     THEN Reply(400, "Invalid JSON", {}, 0, lists, tasks, {})
     ELSE IF request.event # "issues"
     THEN Reply(200, "Event ignored", {}, 0, lists, tasks, {})
     ELSE IF payload.action = "opened"
     THEN OnOpened(payload, fails)
     ELSE IF payload.action \in {"closed", "reopened"}
     THEN OnClosedOrReopened(payload, fails)
     ELSE Reply(200, "Action ignored", {}, 0, lists, tasks, {})

\* One delivery to /api/github-webhook, handled to its response.
Deliver(request, fails, delivered) ==
  LET r == githubWebhookHandler(request, fails)
  IN /\ fails \subseteq r.calls
     /\ ~env.MS_TODO_TOKENS => r.calls \subseteq fails
     /\ Len(r.lists) <= MaxLists
     /\ Len(r.tasks) <= MaxTasks
     /\ lists' = r.lists
     /\ tasks' = r.tasks
     /\ notifQueue' = notifQueue \cup r.notifs
     /\ ghQueue' = ghQueue \ delivered
     /\ last' = [listId |-> r.listId, body |-> r.body, fails |-> fails,
                 calls |-> r.calls, status |-> r.status, request |-> request,
                 op |-> "github"]
     /\ UNCHANGED <<clientVars, serviceVars, env, listGroups, issues, running, jobs, linkWritten>>

Signed(event, rawBody) == GithubRequest(event, SignedBy(GhSecret, rawBody), rawBody)

\* GitHub delivers a queued event.
GithubWebhook ==
  \E e \in ghQueue :
    Deliver(Signed("issues", Payload(e.action, issues[e.number], IssueNumber(e.number))),
            {}, {e})

\* GitHub delivers an 'issues' event the engine reacts to, for the first time
\* or once more, in any order; the Graph calls it causes succeed or fail.
GithubEvent ==
  \E payload \in GithubPayloads({"opened", "closed", "reopened"}) :
    \E fails \in Fails(TRUE, CallKindsOf(payload.action)) :
      Deliver(Signed("issues", payload), fails, {})

\* GitHub delivers an event the engine does not react to.
GithubWebhookIgnored ==
  \E e \in {<<"issues", "edited">>, <<"issue_comment", "edited">>,
             <<"pull_request", "opened">>, <<"pull_request", "closed">>} :
    Deliver(Signed(e[1], Payload(e[2], UserIssue("acme"), 1)), {}, {})

\* a signed body that is not JSON, or not the JSON of an 'issues' event
MalformedPayloads ==
  LET wellFormed == { Payload(a, UserIssue("acme"), 1) : a \in {"opened", "closed"} }
  IN { NotJson(p) : p \in wellFormed }
       \cup { Without(p, f) : p \in wellFormed, f \in {"action", "issue"} }
       \cup { Without(Payload("closed", UserIssue("acme"), 1), "html_url") }

\* The holder of the secret posts a body GitHub would not send.
GithubWebhookMalformed ==
  \E payload \in MalformedPayloads : Deliver(Signed("issues", payload), {}, {})

\* Somebody who does not hold the secret posts to the anonymous endpoint.
GithubWebhookForged ==
  \E a \in {"opened", "closed"} :
    \E h \in BadHeaders(ForgedPayload(a)), fails \in Fails(TRUE, CallKindsOf(a)) :
      /\ a = "closed" => h = MissingHeader
      /\ Deliver(GithubRequest("issues", h, ForgedPayload(a)), fails, {})

\* ------------------------------------------- todo-webhook: entries
NoTask == [title |-> "", body |-> <<>>, id |-> 0]
NoOwnerRepo == [owner |-> "", repo |-> ""]

Job(notification, pc, task, ownerRepo, issueUrl, calls, threw, afterLink) ==
  [issueUrl |-> issueUrl, calls |-> calls, task |-> task, notification |-> notification,
   pc |-> pc, ownerRepo |-> ownerRepo, threw |-> threw, afterLink |-> afterLink]

Finished(job, calls, threw) ==
  Job(job.notification, "done", NoTask, NoOwnerRepo, <<>>, calls, threw, job.afterLink)

\* mutant: a list without a group is taken to belong to the first group
resolveOwnerRepoFromList_defaultGroup(listId, fails) ==
  IF "GET list" \in fails \/ listId \notin 1..Len(lists) THEN NoOwnerRepo
  ELSE IF "GET listGroup" \in fails THEN NoOwnerRepo
  ELSE [owner |-> listGroups[IF lists[listId].groupId = NoGroup THEN 1
                             ELSE lists[listId].groupId].displayName,
        repo |-> lists[listId].displayName]

\* mutant: the two display names change places
resolveOwnerRepoFromList_swapped(listId, fails) ==
  IF "GET list" \in fails \/ listId \notin 1..Len(lists) THEN NoOwnerRepo
  ELSE IF lists[listId].groupId = NoGroup THEN NoOwnerRepo
  ELSE IF "GET listGroup" \in fails THEN NoOwnerRepo
  ELSE [owner |-> lists[listId].displayName,
        repo |-> listGroups[lists[listId].groupId].displayName]

\* GraphClient.resolveOwnerRepoFromList; owner = "" stands for null
resolveOwnerRepoFromList(listId, fails) ==
  IF "GET list" \in fails \/ listId \notin 1..Len(lists) THEN NoOwnerRepo
  ELSE IF lists[listId].groupId = NoGroup THEN NoOwnerRepo
  ELSE IF "GET listGroup" \in fails THEN NoOwnerRepo
  ELSE [owner |-> listGroups[lists[listId].groupId].displayName,
        repo |-> lists[listId].displayName]

ResolveCalls(listId, fails) ==
  IF "GET list" \in fails \/ listId \notin 1..Len(lists) THEN {"GET list"}
  ELSE IF lists[listId].groupId = NoGroup THEN {"GET list"}
  ELSE {"GET list", "GET listGroup"}

\* processNotification up to its first await
StartJob(notification) ==
  LET expectedState == env.GRAPH_SUBSCRIPTION_SECRET
      fresh == Job(notification, "fetch", NoTask, NoOwnerRepo, <<>>, {}, FALSE,
                   notification.taskId \in linkWritten)
  IN IF notification.changeType # "created" THEN Finished(fresh, {}, FALSE)
     ELSE IF ~env.GITHUB_TOKEN THEN Finished(fresh, {}, FALSE)
     ELSE IF Truthy(expectedState) /\ notification.clientState # expectedState
     THEN Finished(fresh, {}, FALSE)
     ELSE fresh

\* entries that do not come from Graph: no clientState, or a guessed one
ForgedNotifications ==
  { Notification("created", cs, tasks[t].listId, t) :
      cs \in {NoSecret, WrongSecret}, t \in {Len(tasks)} \ {0} }

\* the 'created' notification of a task, delivered before, can be delivered again
RedeliveredNotifications ==
  { Notification("created", GraphSecret, tasks[t].listId, t) : t \in 1..Len(tasks) }

\* Graph reports every change the engine itself makes to a task ('updated');
\* such a notification can arrive at any time after the task exists
EngineUpdateNotifications ==
  { Notification("updated", GraphSecret, tasks[t].listId, t) : t \in {Len(tasks)} \ {0} }

TodoRequest(method, validationToken, json, value) ==
  [json |-> json, method |-> method, validationToken |-> validationToken, value |-> value]

\* a batch: no entry, one entry, or a genuine 'created' entry and one more
Batches(G, S) ==
  {<<>>} \cup { <<a>> : a \in G \cup S } \cup { <<a, b>> : a \in G, b \in G \cup S }

\* ------------------------------------------- todo-webhook: handler
\* todoWebhookHandler up to `await Promise.all(tasks)`, or to its early return
TodoReceive(request, delivered) ==
  /\ ~running
  /\ notifQueue' = notifQueue \ delivered
  /\ IF request.validationToken # ""
     THEN /\ last' = [body |-> request.validationToken, status |-> 200, request |-> request,
                      op |-> "todo", contentType |-> "text/plain",
                      kind |-> "validation"]
          /\ UNCHANGED <<running, jobs>>
     ELSE IF ~request.json
     THEN /\ last' = [body |-> "Invalid JSON", status |-> 400, request |-> request,
                      op |-> "todo", contentType |-> "", kind |-> "invalid"]
          /\ UNCHANGED <<running, jobs>>
     ELSE /\ running' = TRUE
          /\ jobs' = [i \in 1..Len(request.value) |-> StartJob(request.value[i])]
          /\ last' = [op |-> "dispatch"]
  /\ UNCHANGED <<clientVars, serviceVars, env, listGroups, lists, tasks, issues, ghQueue, linkWritten>>

\* app.http("todo-webhook", ...): the methods the Functions host hands to the handler
TodoWebhookMethods == {"POST"}

\* what the Functions host answers when no function is registered for the method
UnroutedStatuses == {404, 405}

\* the Functions host: a request reaches todoWebhookHandler only with a registered method
TodoRoute(request, delivered) ==
  IF request.method \in TodoWebhookMethods THEN TodoReceive(request, delivered)
  ELSE /\ ~running
       /\ delivered = {}
       /\ \E status \in UnroutedStatuses :
            last' = [body |-> "", status |-> status, request |-> request, op |-> "todo",
                     contentType |-> "", kind |-> "unrouted"]
       /\ UNCHANGED <<clientVars, serviceVars, env, listGroups, lists, tasks, issues, ghQueue, notifQueue, running,
                      jobs, linkWritten>>

\* Graph delivers a batch: queued notifications, notifications it delivers
\* once more, reports of the engine's own changes; forged entries can ride along.
TodoWebhook ==
  \E batch \in Batches({ n \in notifQueue : n.changeType = "created" }
                           \cup RedeliveredNotifications,
                         notifQueue \cup ForgedNotifications \cup EngineUpdateNotifications) :
    TodoRoute(TodoRequest("POST", "", TRUE, batch), { batch[i] : i \in 1..Len(batch) })

\* Graph delivers one notification at a time.
TodoWebhookSingle ==
  \E n \in notifQueue \cup RedeliveredNotifications :
    TodoRoute(TodoRequest("POST", "", TRUE, <<n>>), {n})

\* The subscription handshake, by POST or by GET, and a body that is not JSON.
TodoWebhookOther ==
  \/ \E method \in {"GET", "POST"}, json \in BOOLEAN :
       TodoRoute(TodoRequest(method, "abc123", json, <<>>), {})
  \/ TodoRoute(TodoRequest("POST", "", FALSE, <<>>), {})

SetJob(i, job) == jobs' = [jobs EXCEPT ![i] = job]

\* mutant: the entry also stops when GitHub already holds an issue with the task's title
JobFetch_searchesIssues(i, ok) ==
  LET job == jobs[i]
      n == job.notification
      calls == job.calls \cup {"GET task"}
      exists == n.taskId \in 1..Len(tasks) /\ tasks[n.taskId].listId = n.listId
  IN /\ job.pc = "fetch"
     /\ IF ~ok \/ ~exists THEN SetJob(i, Finished(job, calls, FALSE))
        ELSE LET task == [title |-> tasks[n.taskId].title, body |-> tasks[n.taskId].body,
                          id |-> n.taskId]
             IN IF hasGitHubIssueLink(task.body)
                   \/ \E k \in 1..Len(issues) : issues[k].title = task.title
                THEN SetJob(i, Finished(job, calls, FALSE))
                ELSE SetJob(i, [job EXCEPT !.pc = "resolve", !.task = task, !.calls = calls])
     /\ last' = [op |-> "job"]
     /\ UNCHANGED <<clientVars, serviceVars, env, listGroups, lists, tasks, issues, ghQueue, notifQueue, running,
                    linkWritten>>

\* processNotification: `await graphClient.request(resourceUrl)` and the
\* synchronous code that follows it
JobFetch(i, ok) ==
  LET job == jobs[i]
      n == job.notification
      calls == job.calls \cup {"GET task"}
      exists == n.taskId \in 1..Len(tasks) /\ tasks[n.taskId].listId = n.listId
  IN /\ job.pc = "fetch"
     /\ IF ~ok \/ ~exists THEN SetJob(i, Finished(job, calls, FALSE))
        ELSE LET task == [title |-> tasks[n.taskId].title, body |-> tasks[n.taskId].body,
                          id |-> n.taskId]
             IN IF hasGitHubIssueLink(task.body)
                THEN SetJob(i, Finished(job, calls, FALSE))
                ELSE SetJob(i, [job EXCEPT !.pc = "resolve", !.task = task, !.calls = calls])
     /\ last' = [op |-> "job"]
     /\ UNCHANGED <<clientVars, serviceVars, env, listGroups, lists, tasks, issues, ghQueue, notifQueue, running,
                    linkWritten>>

\* processNotification: `await graphClient.resolveOwnerRepoFromList(listId)`
JobResolve(i, fails) ==
  LET job == jobs[i]
      listId == job.notification.listId
      ownerRepo == resolveOwnerRepoFromList(listId, fails)
      calls == job.calls \cup ResolveCalls(listId, fails)
  IN /\ job.pc = "resolve"
     /\ fails \subseteq ResolveCalls(listId, fails)
     /\ IF ownerRepo = NoOwnerRepo THEN SetJob(i, Finished(job, calls, FALSE))
        ELSE SetJob(i, [job EXCEPT !.pc = "create", !.ownerRepo = ownerRepo, !.calls = calls])
     /\ last' = [op |-> "job"]
     /\ UNCHANGED <<clientVars, serviceVars, env, listGroups, lists, tasks, issues, ghQueue, notifQueue, running,
                    linkWritten>>

\* mutant: entries of one invocation that are about the same task share one issue
JobCreate_once(i, ok) ==
  LET job == jobs[i]
      calls == job.calls \cup {"POST issue"}
      number == Len(issues) + 1
      issue == [owner |-> job.ownerRepo.owner, repo |-> job.ownerRepo.repo,
                title |-> job.task.title, body |-> buildIssueBodyFromTask(job.task.body),
                state |-> "open"]
      taken == \E j \in DOMAIN jobs \ {i} :
                 jobs[j].pc = "patch" /\ jobs[j].task.id = job.task.id
  IN /\ job.pc = "create"
     /\ (ok /\ ~taken) => Len(issues) < MaxIssues
     /\ IF ~ok \/ taken
        THEN /\ SetJob(i, Finished(job, calls, ~ok))
             /\ UNCHANGED <<issues, ghQueue>>
        ELSE /\ issues' = Append(issues, issue)
             /\ ghQueue' = ghQueue \cup {[action |-> "opened", number |-> number]}
             /\ SetJob(i, [job EXCEPT !.pc = "patch", !.calls = calls,
                             !.issueUrl = IssueUrl(issue.owner, issue.repo, IssueNumber(number))])
     /\ last' = [op |-> "job"]
     /\ UNCHANGED <<clientVars, serviceVars, env, listGroups, lists, tasks, notifQueue, running, linkWritten>>

\* processNotification: `await gitHubClient.request(.../issues, "POST", ...)`
JobCreate(i, ok) ==
  LET job == jobs[i]
      calls == job.calls \cup {"POST issue"}
      number == Len(issues) + 1
      issue == [owner |-> job.ownerRepo.owner, repo |-> job.ownerRepo.repo,
                title |-> job.task.title, body |-> buildIssueBodyFromTask(job.task.body),
                state |-> "open"]
  IN /\ job.pc = "create"
     /\ ok => Len(issues) < MaxIssues
     /\ IF ~ok
        THEN /\ SetJob(i, Finished(job, calls, TRUE))
             /\ UNCHANGED <<issues, ghQueue>>
        ELSE /\ issues' = Append(issues, issue)
             /\ ghQueue' = ghQueue \cup {[action |-> "opened", number |-> number]}
             /\ SetJob(i, [job EXCEPT !.pc = "patch", !.calls = calls,
                             !.issueUrl = IssueUrl(issue.owner, issue.repo, IssueNumber(number))])
     /\ last' = [op |-> "job"]
     /\ UNCHANGED <<clientVars, serviceVars, env, listGroups, lists, tasks, notifQueue, running, linkWritten>>

\* processNotification: the PATCH that stores the issue URL in the task body
JobPatch(i, ok) ==
  LET job == jobs[i]
      calls == job.calls \cup {"PATCH task body"}
      updatedBody == appendIssueLink(job.task.body, job.issueUrl)
  IN /\ job.pc = "patch"
     /\ IF ok
        THEN /\ tasks' = [tasks EXCEPT ![job.task.id].body = updatedBody]
             /\ linkWritten' = linkWritten \cup {job.task.id}
        ELSE UNCHANGED <<tasks, linkWritten>>
     /\ SetJob(i, Finished(job, calls, FALSE))
     /\ last' = [op |-> "job"]
     /\ UNCHANGED <<clientVars, serviceVars, env, listGroups, lists, issues, ghQueue, notifQueue, running>>

\* the promise of entry i moves on by one await
JobStepOf(i, faults) ==
  \/ \E ok \in GraphOutcomes(faults) : JobFetch(i, ok)
  \/ \E fails \in Fails(faults, {"GET list", "GET listGroup"}) :
       (env.MS_TODO_TOKENS \/ "GET list" \in fails) /\ JobResolve(i, fails)
  \/ \E ok \in Outcomes(faults) : JobCreate(i, ok)
  \/ \E ok \in GraphOutcomes(faults) : JobPatch(i, ok)

JobStep(faults) == \E i \in DOMAIN jobs : JobStepOf(i, faults)

\* mutant: no `.catch` on the entries' promises; Promise.all rejects with the
\* first entry that threw and the invocation ends in an error
TodoRespond_uncaught ==
  LET rejected == \E i \in DOMAIN jobs : jobs[i].threw
  IN /\ running
     /\ rejected \/ \A i \in DOMAIN jobs : jobs[i].pc = "done"
     /\ running' = FALSE
     /\ jobs' = <<>>
     /\ last' = [body |-> "", status |-> IF rejected THEN 500 ELSE 202, op |-> "todo",
                 contentType |-> "", kind |-> "batch"]
     /\ UNCHANGED <<clientVars, serviceVars, env, listGroups, lists, tasks, issues, ghQueue, notifQueue, linkWritten>>

\* todoWebhookHandler: `await Promise.all(tasks)` returns, the handler answers 202
TodoRespond ==
  /\ running
  /\ \A i \in DOMAIN jobs : jobs[i].pc = "done"
  /\ running' = FALSE
  /\ jobs' = <<>>
  /\ last' = [body |-> "", status |-> 202, op |-> "todo", contentType |-> "",
              kind |-> "batch"]
  /\ UNCHANGED <<clientVars, serviceVars, env, listGroups, lists, tasks, issues, ghQueue, notifQueue, linkWritten>>

\* ------------------------------------------- token-manager.ts
\* Time is counted in minutes.
TOKEN_REFRESH_BUFFER == 5
DEFAULT_EXPIRES_IN == 60

NoToken == 0
EnvToken == 1
NoRefresh == 0
EnvRefresh == 1
RotatedRefresh == 2

TokenData(accessToken, refreshToken, expiresAt) ==
  [accessToken |-> accessToken, refreshToken |-> refreshToken, expiresAt |-> expiresAt]

\* cachedToken = null, and the null that getTokens returns
NoTokenData == TokenData(NoToken, NoRefresh, 0)

\* `Date.now() < expiresAt - TOKEN_REFRESH_BUFFER_MS`
Fresh(expiresAt, t) == t < expiresAt - TOKEN_REFRESH_BUFFER

\* the answers of the token endpoint: an error (or a network failure), or a
\* token response with a new access token, with or without a new refresh
\* token, without expires_in (0) or with a short one
ExpiresIn == {0, TOKEN_REFRESH_BUFFER}

TokenResponse(ok, access_token, refresh_token, expires_in) ==
  [ok |-> ok, access_token |-> access_token, refresh_token |-> refresh_token,
   expires_in |-> expires_in]

TokenResponses(t) ==
  {TokenResponse(FALSE, NoToken, NoRefresh, 0)}
    \cup { TokenResponse(TRUE, EnvToken + t.issued + 1, r, e) :
             r \in {NoRefresh, RotatedRefresh}, e \in ExpiresIn }

\* the answers that matter to a client of the token manager: those that
\* keep the refresh token
PlainTokenResponses(t) == { r \in TokenResponses(t) : r.refresh_token = NoRefresh }

\* what a correct client makes of a token response at time `at`
Granted(response, refreshToken, at) ==
  TokenData(response.access_token,
            IF response.refresh_token # NoRefresh THEN response.refresh_token ELSE refreshToken,
            at + (IF response.expires_in # 0 THEN response.expires_in ELSE DEFAULT_EXPIRES_IN)
               - TOKEN_REFRESH_BUFFER)

Answer(t, result, exchanges) == [tokens |-> t, result |-> result, exchanges |-> exchanges]

\* mutant: a failed exchange discards the cached token
refreshAccessToken_clearsCache(t, refreshToken, response, at) ==
  IF ~t.CLIENT_SECRET THEN Answer(t, NoTokenData, 0)
  ELSE IF ~response.ok THEN Answer([t EXCEPT !.cachedToken = NoTokenData], NoTokenData, 1)
  ELSE LET data == Granted(response, refreshToken, at)
       IN Answer([t EXCEPT !.cachedToken = data, !.issued = t.issued + 1,
                           !.granted = t.granted \cup {data}], data, 1)

\* mutant: the fields of cachedToken are assigned one by one, expiresAt only
\* when the cache was empty
refreshAccessToken_fieldwise(t, refreshToken, response, at) ==
  IF ~t.CLIENT_SECRET THEN Answer(t, NoTokenData, 0)
  ELSE IF ~response.ok THEN Answer(t, NoTokenData, 1)
  ELSE LET data == Granted(response, refreshToken, at)
           mixed == IF t.cachedToken = NoTokenData THEN data
                    ELSE [data EXCEPT !.expiresAt = t.cachedToken.expiresAt]
       IN Answer([t EXCEPT !.cachedToken = mixed, !.issued = t.issued + 1,
                           !.granted = t.granted \cup {data}], mixed, 1)

\* TokenManager.refreshAccessToken, the token endpoint answering `response`
\* at time `at`: the TokenManager afterwards, the value returned, the number
\* of requests made to the token endpoint.  issued and granted are the
\* endpoint's side: the tokens it has handed out.
refreshAccessToken(t, refreshToken, response, at) ==
  IF ~t.CLIENT_SECRET THEN Answer(t, NoTokenData, 0)
  ELSE IF ~response.ok THEN Answer(t, NoTokenData, 1)
  ELSE LET data == Granted(response, refreshToken, at)
       IN Answer([t EXCEPT !.cachedToken = data, !.issued = t.issued + 1,
                           !.granted = t.granted \cup {data}], data, 1)

Begun(kind, t, result, refreshToken) ==
  [kind |-> kind, tokens |-> t, result |-> result, refreshToken |-> refreshToken]

\* mutant: the cache is not consulted
getTokens_noCache(t, at) ==
  LET refreshToken == IF t.MS_TODO_REFRESH_TOKEN # NoRefresh THEN t.MS_TODO_REFRESH_TOKEN
                      ELSE t.cachedToken.refreshToken
  IN IF t.MS_TODO_ACCESS_TOKEN # NoToken /\ Fresh(t.MS_TODO_TOKEN_EXPIRES_AT, at)
     THEN LET data == TokenData(t.MS_TODO_ACCESS_TOKEN, t.MS_TODO_REFRESH_TOKEN,
                                t.MS_TODO_TOKEN_EXPIRES_AT)
          IN Begun("return", [t EXCEPT !.cachedToken = data], data, NoRefresh)
     ELSE IF refreshToken # NoRefresh
     THEN Begun("refresh", t, NoTokenData, refreshToken)
     ELSE Begun("return", t, NoTokenData, NoRefresh)

\* mutant: the refresh is attempted with whatever refresh token there is, even none
getTokens_alwaysRefresh(t, at) ==
  LET refreshToken == IF t.MS_TODO_REFRESH_TOKEN # NoRefresh THEN t.MS_TODO_REFRESH_TOKEN
                      ELSE t.cachedToken.refreshToken
  IN IF t.cachedToken # NoTokenData /\ Fresh(t.cachedToken.expiresAt, at)
     THEN Begun("return", t, t.cachedToken, NoRefresh)
     ELSE IF t.MS_TODO_ACCESS_TOKEN # NoToken /\ Fresh(t.MS_TODO_TOKEN_EXPIRES_AT, at)
     THEN LET data == TokenData(t.MS_TODO_ACCESS_TOKEN, t.MS_TODO_REFRESH_TOKEN,
                                t.MS_TODO_TOKEN_EXPIRES_AT)
          IN Begun("return", [t EXCEPT !.cachedToken = data], data, NoRefresh)
     ELSE Begun("refresh", t, NoTokenData, refreshToken)

\* TokenManager.getTokens up to `return this.refreshAccessToken(refreshToken)`:
\* either it returns (a token, or NoTokenData for null) or it goes on to the
\* refresh with the refresh token it has picked
getTokens(t, at) ==
  LET refreshToken == IF t.MS_TODO_REFRESH_TOKEN # NoRefresh THEN t.MS_TODO_REFRESH_TOKEN
                      ELSE t.cachedToken.refreshToken
  IN IF t.cachedToken # NoTokenData /\ Fresh(t.cachedToken.expiresAt, at)
     THEN Begun("return", t, t.cachedToken, NoRefresh)
     ELSE IF t.MS_TODO_ACCESS_TOKEN # NoToken /\ Fresh(t.MS_TODO_TOKEN_EXPIRES_AT, at)
     THEN LET data == TokenData(t.MS_TODO_ACCESS_TOKEN, t.MS_TODO_REFRESH_TOKEN,
                                t.MS_TODO_TOKEN_EXPIRES_AT)
          IN Begun("return", [t EXCEPT !.cachedToken = data], data, NoRefresh)
     ELSE IF refreshToken # NoRefresh
     THEN Begun("refresh", t, NoTokenData, refreshToken)
     ELSE Begun("return", t, NoTokenData, NoRefresh)

\* AuthService.getAccessToken with nothing else running in between: the
\* access token (NoToken for null) and the TokenManager afterwards
getAccessToken(t, response, at) ==
  LET begun == getTokens(t, at)
      answer == IF begun.kind = "refresh"
                THEN refreshAccessToken(begun.tokens, begun.refreshToken, response, at)
                ELSE Answer(begun.tokens, begun.result, 0)
  IN [token |-> answer.result.accessToken, tokens |-> answer.tokens]

\* time passes
ClockStep == 30

Tick ==
  /\ now < MaxClock * ClockStep
  /\ now' = now + ClockStep
  /\ last' = [op |-> "clock"]
  /\ UNCHANGED <<world, clientVars, getters, renewer, example>>

\* a getTokens call: which step it is at, the refresh token it refreshes
\* with, the cached access token it found when it began, what it returned and when
Getter(pc, refreshToken, seen, result, exchanges, at) ==
  [pc |-> pc, refreshToken |-> refreshToken, seen |-> seen, result |-> result,
   exchanges |-> exchanges, at |-> at]

NoGetter == Getter("idle", NoRefresh, NoToken, NoTokenData, 0, 0)

\* a caller enters getTokens and runs to its return or to the `await fetch`
\* of the refresh
GetTokensBegins(p) ==
  LET begun == getTokens(tokens, now)
      seen == tokens.cachedToken.accessToken
  IN /\ getters[p].pc = "idle"
     /\ tokens' = begun.tokens
     /\ getters' = [getters EXCEPT ![p] =
          IF begun.kind = "return"
          THEN Getter("returned", NoRefresh, seen, begun.result, 0, now)
          ELSE IF ~tokens.CLIENT_SECRET
          THEN Getter("returned", begun.refreshToken, seen, NoTokenData, 0, now)
          ELSE Getter("refresh", begun.refreshToken, seen, NoTokenData, 0, now)]
     /\ last' = [op |-> "getTokens"]
     /\ UNCHANGED <<world, call, previous, now, renewer, example>>

\* the token endpoint answers; refreshAccessToken runs to its return
RefreshResponds(p) ==
  \E response \in TokenResponses(tokens) :
    LET answer == refreshAccessToken(tokens, getters[p].refreshToken, response, now)
    IN /\ getters[p].pc = "refresh"
       /\ answer.tokens.issued <= MaxRefreshes
       /\ tokens' = answer.tokens
       /\ getters' = [getters EXCEPT ![p] =
            Getter("returned", getters[p].refreshToken, getters[p].seen, answer.result,
                   answer.exchanges, now)]
       /\ last' = [op |-> "getTokens"]
       /\ UNCHANGED <<world, call, previous, now, renewer, example>>

\* the caller has its answer and may call again
GetTokensReturns(p) ==
  /\ getters[p].pc = "returned"
  /\ getters' = [getters EXCEPT ![p] = NoGetter]
  /\ last' = [op |-> "getTokens"]
  /\ UNCHANGED <<world, clientVars, now, renewer, example>>

\* ------------------------------------------- GraphClient.ts, GitHubClient.ts
\* fetch rejects (network error): no status
FetchRejects == 0

Response(status, mailbox) == [status |-> status, mailbox |-> mailbox]

\* what Graph can answer: the body of an error answer may hold
\* 'MailboxNotEnabledForRESTAPI'
GraphResponses ==
  { Response(s, FALSE) : s \in {200, 204, 401, 404, 500, FetchRejects} }
    \cup { Response(s, TRUE) : s \in {401, 404} }

GitHubResponses == { Response(s, FALSE) : s \in {200, 204, 401, 404, 500, FetchRejects} }

\* response.ok
Ok(response) == response.status \in 200..299

\* what the caller of request gets: a value, null, or an exception
Value == [kind |-> "value", message |-> ""]
Null == [kind |-> "null", message |-> ""]
Throw(message) == [kind |-> "throw", message |-> message]

\* GraphClient.request from `if (response.status === 204)` on: what is thrown
\* inside the try block is caught by its own catch, which returns null
GraphResult(response) ==
  LET inTry == IF response.status = FetchRejects THEN Throw("fetch failed")
               ELSE IF response.status = 204 THEN Null
               ELSE IF ~Ok(response)
               THEN IF response.mailbox
                    THEN Throw("Microsoft To Do API is not available for personal Microsoft accounts")
                    ELSE Throw("HTTP error!")
               ELSE Value
  IN IF inTry.kind = "throw" THEN Null ELSE inTry

\* GitHubClient.request from `if (response.status === 204)` on: the catch rethrows
GitHubResult(response) ==
  IF response.status = FetchRejects THEN Throw("fetch failed")
  ELSE IF response.status = 204 THEN Null
  ELSE IF ~Ok(response) THEN Throw("GitHub API error!")
  ELSE Value

Idle ==
  [pc |-> "idle", token |-> NoToken, response |-> Response(FetchRejects, FALSE), client |-> "none", newToken |-> NoToken,
   acquired |-> 0, sent |-> <<>>, outcome |-> Null]

Returned(c, outcome) == [c EXCEPT !.pc = "done", !.outcome = outcome]

\* mutant: every 401 leads to a new token acquisition and another attempt
RetryAfter_always(sent, response) == response.status = 401

\* GraphClient.request: `if (response.status === 401)` is looked at once,
\* after the first fetch
RetryAfter(sent, response) == sent = <<>> /\ response.status = 401

\* GraphClient.request up to its first fetch
GraphRequestStart ==
  \E response \in PlainTokenResponses(tokens) :
    LET r == getAccessToken(tokens, response, now)
        started == [Idle EXCEPT !.client = "graph", !.acquired = 1, !.token = r.token]
    IN /\ call.pc = "idle"
       /\ r.tokens.issued <= MaxRefreshes
       /\ tokens' = r.tokens
       /\ call' = IF r.token = NoToken THEN Returned(started, Null)
                  ELSE [started EXCEPT !.pc = "fetch"]
       /\ last' = [op |-> "client"]
       /\ UNCHANGED <<world, serviceVars, previous>>

\* GraphClient.request: `await fetch(...)`, first attempt or retry
GraphFetch ==
  \E response \in GraphResponses :
    LET sent == Append(call.sent, [status |-> response.status, token |-> call.token])
        answered == [call EXCEPT !.sent = sent, !.response = response]
    IN /\ call.client = "graph"
       /\ call.pc = "fetch"
       /\ call' = IF RetryAfter(call.sent, response)
                  THEN [answered EXCEPT !.pc = "reacquire"]
                  ELSE Returned(answered, GraphResult(response))
       /\ last' = [op |-> "client"]
       /\ UNCHANGED <<world, serviceVars, tokens, previous>>

\* GraphClient.request after a 401: the second getAccessToken
GraphReacquire ==
  \E response \in PlainTokenResponses(tokens) :
    LET r == getAccessToken(tokens, response, now)
        asked == [call EXCEPT !.acquired = call.acquired + 1, !.newToken = r.token]
    IN /\ call.client = "graph"
       /\ call.pc = "reacquire"
       /\ r.tokens.issued <= MaxRefreshes
       /\ tokens' = r.tokens
       /\ call' = IF r.token # NoToken /\ r.token # call.token
                  THEN [asked EXCEPT !.pc = "fetch", !.token = r.token]
                  ELSE Returned(asked, GraphResult(call.response))
       /\ last' = [op |-> "client"]
       /\ UNCHANGED <<world, serviceVars, previous>>

\* GitHubClient.request up to its fetch
GitHubRequestStart ==
  LET started == [Idle EXCEPT !.client = "github"]
  IN /\ call.pc = "idle"
     /\ call' = IF ~env.GITHUB_TOKEN
                THEN Returned(started, Throw("GITHUB_TOKEN environment variable is not configured"))
                ELSE [started EXCEPT !.pc = "fetch"]
     /\ last' = [op |-> "client"]
     /\ UNCHANGED <<world, serviceVars, tokens, previous>>

\* GitHubClient.request: `await fetch(url, options)` and what follows
GitHubFetch ==
  \E response \in GitHubResponses :
    LET sent == Append(call.sent, [status |-> response.status, token |-> NoToken])
    IN /\ call.client = "github"
       /\ call.pc = "fetch"
       /\ call' = Returned([call EXCEPT !.sent = sent, !.response = response],
                           GitHubResult(response))
       /\ last' = [op |-> "client"]
       /\ UNCHANGED <<world, serviceVars, tokens, previous>>

\* the caller has the result; the client is free for the next request
CallReturns ==
  /\ call.pc = "done"
  /\ previous' = call
  /\ call' = Idle
  /\ last' = [op |-> "client"]
  /\ UNCHANGED <<world, serviceVars, tokens>>

\* ------------------------------------------- the two platforms' users
UserCreatesTask ==
  \E l \in 1..Len(lists) :
    /\ Len(tasks) < MaxTasks
    /\ tasks' = Append(tasks, [listId |-> l, title |-> UserTaskTitle, body |-> UserTaskBody,
                               status |-> "notStarted"])
    /\ notifQueue' = notifQueue \cup {Notification("created", GraphSecret, l, Len(tasks) + 1)}
    /\ last' = [op |-> "user"]
    /\ UNCHANGED <<clientVars, serviceVars, env, listGroups, lists, issues, ghQueue, running, jobs, linkWritten>>

UserCompletesTask ==
  \E t \in 1..Len(tasks) :
    /\ tasks[t].status # "completed"
    /\ tasks' = [tasks EXCEPT ![t].status = "completed"]
    /\ notifQueue' = notifQueue \cup {Notification("updated", GraphSecret, tasks[t].listId, t)}
    /\ last' = [op |-> "user"]
    /\ UNCHANGED <<clientVars, serviceVars, env, listGroups, lists, issues, ghQueue, running, jobs, linkWritten>>

UserOpensIssue ==
  \E owner \in Owners :
    /\ Len(issues) < MaxIssues
    /\ issues' = Append(issues, UserIssue(owner))
    /\ ghQueue' = ghQueue \cup {[action |-> "opened", number |-> Len(issues) + 1]}
    /\ last' = [op |-> "user"]
    /\ UNCHANGED <<clientVars, serviceVars, env, listGroups, lists, tasks, notifQueue, running, jobs, linkWritten>>

UserClosesIssue ==
  \E n \in 1..Len(issues) :
    /\ issues[n].state = "open"
    /\ \A e \in ghQueue : e.number # n
    /\ issues' = [issues EXCEPT ![n].state = "closed"]
    /\ ghQueue' = ghQueue \cup {[action |-> "closed", number |-> n]}
    /\ last' = [op |-> "user"]
    /\ UNCHANGED <<clientVars, serviceVars, env, listGroups, lists, tasks, notifQueue, running, jobs, linkWritten>>

\* ------------------------------------------------------ specification
\* the app settings of a deployment: everything set, or one setting left out
Configured ==
  [MS_TODO_TOKENS |-> TRUE, GITHUB_WEBHOOK_SECRET |-> GhSecret,
   GRAPH_SUBSCRIPTION_SECRET |-> GraphSecret, GITHUB_TOKEN |-> TRUE]

UnmappedList == [displayName |-> "Tasks", groupId |-> NoGroup]
MappedList == [displayName |-> "widgets", groupId |-> 1]

Start ==
  /\ tasks = <<>>
  /\ issues = <<>>
  /\ ghQueue = {}
  /\ notifQueue = {}
  /\ running = FALSE
  /\ jobs = <<>>
  /\ linkWritten = {}
  /\ last = [op |-> "init"]
  /\ call = Idle
  /\ previous = Idle
  /\ now = 0
  /\ getters = [p \in 1..2 |-> NoGetter]

\* a process that has not asked for a Graph token yet, none of the token
\* settings in place
NoTokens ==
  [cachedToken |-> NoTokenData, MS_TODO_ACCESS_TOKEN |-> NoToken, MS_TODO_TOKEN_EXPIRES_AT |-> 0,
   MS_TODO_REFRESH_TOKEN |-> NoRefresh, CLIENT_SECRET |-> FALSE, issued |-> 0, granted |-> {}]

\* the token settings: an access token or none, a refresh token or none,
\* client id and secret or none
TokenSettings ==
  { [NoTokens EXCEPT !.MS_TODO_ACCESS_TOKEN = a,
                     !.MS_TODO_TOKEN_EXPIRES_AT = IF a = NoToken THEN 0 ELSE DEFAULT_EXPIRES_IN,
                     !.MS_TODO_REFRESH_TOKEN = r, !.CLIENT_SECRET = c] :
      a \in {NoToken, EnvToken}, r \in {NoRefresh, EnvRefresh}, c \in BOOLEAN }

\* a function of the integrity module, its arguments, and its result once applied
Example(fn, args) == [fn |-> fn, args |-> args, applied |-> FALSE, result |-> <<>>]

NoExample == Example("none", <<>>)

\* ------------------------------------------- subscription-renew
\* Time is counted in minutes.
MaxRuns == 7

\* mutant: a lease of twelve and a half hours
SUBSCRIPTION_EXPIRY_short == 12 * 60 + 30

SUBSCRIPTION_EXPIRY_MINUTES == 4230

\* schedule "0 0 */12 * * *"
RENEW_INTERVAL == 12 * 60

SubA == <<"sub-a">>
SubB == <<"sub-b">>
Subscriptions == {SubA, SubB}

\* String.prototype.split(",")
RECURSIVE Split(_)
Split(s) ==
  IF \A k \in 1..Len(s) : s[k] # ","
  THEN <<s>>
  ELSE LET k == Min({ j \in 1..Len(s) : s[j] = "," })
       IN <<SubSeq(s, 1, k - 1)>> \o Split(SubSeq(s, k + 1, Len(s)))

\* idsEnv.split(",").map((s) => s.trim()).filter(Boolean)
subscriptionIds(idsEnv) ==
  LET parts == Split(idsEnv)
  IN SelectSeq([k \in 1..Len(parts) |-> Trim(parts[k])], LAMBDA id : id # <<>>)

\* GRAPH_SUBSCRIPTION_IDS: not set, one id, two ids with blanks and a trailing comma
IdsEnvs ==
  { <<>>,
    <<"sub-a">>,
    <<"sub-a", ",", SP, "sub-b", ",">>,
    <<"sub-b", SP, ",", ",", "sub-a">> }

\* what graphClient.request hands to the renewer
RenewResults == { GraphResult(response) : response \in GraphResponses }

Renewal(id, expirationDateTime, result) ==
  [id |-> id, expirationDateTime |-> expirationDateTime, result |-> result]

Renewer(idsEnv, leases) ==
  [idsEnv |-> idsEnv, leases |-> leases, pc |-> "idle", ran |-> FALSE, runs |-> 0,
   clock |-> 0, subscriptionIds |-> <<>>, index |-> 0, expirationDateTime |-> 0,
   calls |-> <<>>, since |-> [id \in Subscriptions |-> 0], renewed |-> {}]

NoRenewer == Renewer(<<>>, [id \in Subscriptions |-> 0])

\* the timer fires: renewSubscriptions up to its first await, or to its return
RenewStart ==
  LET ids == subscriptionIds(renewer.idsEnv)
  IN /\ renewer.pc = "idle"
     /\ ~renewer.ran
     /\ renewer.runs < MaxRuns
     /\ renewer' =
          IF renewer.idsEnv = <<>> \/ ids = <<>>
          THEN [renewer EXCEPT !.ran = TRUE, !.runs = @ + 1, !.calls = <<>>]
          ELSE [renewer EXCEPT !.pc = "loop", !.runs = @ + 1, !.calls = <<>>,
                               !.subscriptionIds = ids, !.index = 1,
                               !.expirationDateTime = renewer.clock + SUBSCRIPTION_EXPIRY_MINUTES]
     /\ last' = [op |-> "renew"]
     /\ UNCHANGED <<world, clientVars, now, getters, example>>

\* mutant: the loop ends at the first subscription that cannot be renewed
RenewOne_stopsAtFailure(result) ==
  LET id == renewer.subscriptionIds[renewer.index]
      call_ == Renewal(id, renewer.expirationDateTime, result.kind)
      end == renewer.index = Len(renewer.subscriptionIds) \/ result = Null
  IN /\ renewer.pc = "loop"
     /\ result = Value => renewer.clock < renewer.leases[id]
     /\ renewer' =
          [renewer EXCEPT !.calls = Append(@, call_),
                          !.leases[id] = IF result = Value THEN renewer.expirationDateTime ELSE @,
                          !.since[id] = IF result = Value THEN 0 ELSE @ + 1,
                          !.renewed = IF result = Value THEN @ \cup {id} ELSE @,
                          !.index = IF end THEN 0 ELSE @ + 1,
                          !.pc = IF end THEN "idle" ELSE "loop",
                          !.ran = end]
     /\ last' = [op |-> "renew"]
     /\ UNCHANGED <<world, clientVars, now, getters, example>>

\* one turn of the loop: the PATCH of subscriptions/{id} and what follows it.
\* Graph extends a lease only while it has not lapsed.
RenewOne(result) ==
  LET id == renewer.subscriptionIds[renewer.index]
      call_ == Renewal(id, renewer.expirationDateTime, result.kind)
      end == renewer.index = Len(renewer.subscriptionIds)
  IN /\ renewer.pc = "loop"
     /\ result = Value => renewer.clock < renewer.leases[id]
     /\ renewer' =
          [renewer EXCEPT !.calls = Append(@, call_),
                          !.leases[id] = IF result = Value THEN renewer.expirationDateTime ELSE @,
                          !.since[id] = IF result = Value THEN 0 ELSE @ + 1,
                          !.renewed = IF result = Value THEN @ \cup {id} ELSE @,
                          !.index = IF end THEN 0 ELSE @ + 1,
                          !.pc = IF end THEN "idle" ELSE "loop",
                          !.ran = end]
     /\ last' = [op |-> "renew"]
     /\ UNCHANGED <<world, clientVars, now, getters, example>>

Renew == \E result \in RenewResults : RenewOne(result)

\* twelve hours pass between one run and the next
TimerTick ==
  /\ renewer.pc = "idle"
  /\ renewer.ran
  /\ renewer.runs < MaxRuns
  /\ renewer' = [renewer EXCEPT !.clock = @ + RENEW_INTERVAL, !.ran = FALSE]
  /\ last' = [op |-> "clock"]
  /\ UNCHANGED <<world, clientVars, now, getters, example>>

\* the renewer under every setting of GRAPH_SUBSCRIPTION_IDS; each
\* subscription was created at the start or does not exist
InitRenew ==
  /\ Start
  /\ renewer \in { Renewer(idsEnv, leases) :
                      idsEnv \in IdsEnvs,
                      leases \in [Subscriptions -> {0, SUBSCRIPTION_EXPIRY_MINUTES}] }
  /\ example = NoExample
  /\ env = Configured
  /\ tokens = NoTokens
  /\ listGroups = <<>>
  /\ lists = <<>>

NextRenew ==
  \/ RenewStart
  \/ Renew
  \/ TimerTick

SpecRenew == InitRenew /\ [][NextRenew]_vars

\* ------------------------------------------- the integrity functions, applied
Applied(result) == [example EXCEPT !.applied = TRUE, !.result = result]

\* every phase and every issue action
StatusExamples ==
  { Example("phase", <<p>>) : p \in SmartGoalPhase }
    \cup { Example("action", <<a>>) : a \in GitHubIssueAction }

\* the two tables are read, or the two mapping functions are called
ApplyStatusMapping ==
  /\ example.fn \in {"phase", "action"}
  /\ ~example.applied
  /\ example' =
       IF example.fn = "phase"
       THEN Applied([todo |-> IF example.args[1] \in DOMAIN PHASE_TO_TODO_STATUS
                              THEN PHASE_TO_TODO_STATUS[example.args[1]] ELSE "undefined",
                     github |-> IF example.args[1] \in DOMAIN PHASE_TO_GITHUB_STATE
                                THEN PHASE_TO_GITHUB_STATE[example.args[1]] ELSE "undefined"])
       ELSE Applied([phase |-> githubActionToGoalPhase(example.args[1]),
                     todo |-> githubActionToTodoStatus(example.args[1])])
  /\ last' = [op |-> "apply"]
  /\ UNCHANGED <<world, clientVars, now, getters, renewer>>

\* what stands in a task body where an issue URL could stand: nothing, the
\* URL of issue 1 or 12, the same path on another host, a pull request, a
\* URL without its number, a URL without its repository
OTHER_HOST == "https://example.com/"

UrlLikes ==
  { <<>>,
    IssueUrl("acme", "widgets", 1),
    IssueUrl("acme", "widgets", 12),
    <<OTHER_HOST, "acme", SLASH, "widgets", SLASH, ISSUES_WORD, SLASH, "1">>,
    <<GITHUB_HOST, "acme", SLASH, "widgets", SLASH, "pull", SLASH, "1">>,
    <<GITHUB_HOST, "acme", SLASH, "widgets", SLASH, ISSUES_WORD, SLASH>>,
    <<GITHUB_HOST, "acme", SLASH, ISSUES_WORD, SLASH, "1">> }

\* what precedes it: nothing, a note, the marker, the marker without a blank
Leads ==
  { <<>>, <<"note", NL>>, <<ISSUE_LINK_MARKER, SP>>, <<ISSUE_LINK_MARKER>>,
    <<"note", NL, NL, ISSUE_LINK_MARKER, SP>> }

Trails == { <<>>, <<NL, NL, "desc">> }

Bodies == { lead \o url \o trail : lead \in Leads, url \in UrlLikes, trail \in Trails }

BodyExamples == { Example("hasGitHubIssueLink", <<body>>) : body \in Bodies }

ApplyHasGitHubIssueLink ==
  /\ example.fn = "hasGitHubIssueLink"
  /\ ~example.applied
  /\ example' = Applied(hasGitHubIssueLink(example.args[1]))
  /\ last' = [op |-> "apply"]
  /\ UNCHANGED <<world, clientVars, now, getters, renewer>>

AppendExamples ==
  { Example("appendIssueLink", <<body, IssueUrl("acme", "widgets", n)>>) :
      body \in Bodies, n \in {1, 12} }

ApplyAppendIssueLink ==
  /\ example.fn = "appendIssueLink"
  /\ ~example.applied
  /\ example' = Applied(appendIssueLink(example.args[1], example.args[2]))
  /\ last' = [op |-> "apply"]
  /\ UNCHANGED <<world, clientVars, now, getters, renewer>>

\* the body {"action":"opened"} about acme/widgets#1, and the same with one byte changed
SignedBodies == { ForgedPayload(a) : a \in {"opened", "openee"} }

\* headers: the signature of either body under either secret, whole, with
\* one character of the prefix or one digit changed, with other prefixes,
\* a digit short or a digit long; and no header
SigHeaders ==
  { SigHeader(prefix, Hmac(secret, rawBody), changed, length) :
      prefix \in {"sha256=", "sha256:", "sha1=", ""},
      secret \in {GhSecret, WrongSecret},
      rawBody \in SignedBodies,
      changed \in {0, 1, HEX_LENGTH},
      length \in {HEX_LENGTH - 1, HEX_LENGTH, HEX_LENGTH + 1} }
    \cup {MissingHeader}

SignatureExamples ==
  { Example("verifySignature", <<secret, rawBody, sigHeader>>) :
      secret \in {GhSecret, WrongSecret}, rawBody \in SignedBodies, sigHeader \in SigHeaders }

ApplyVerifySignature ==
  /\ example.fn = "verifySignature"
  /\ ~example.applied
  /\ example' = Applied(verifySignature(example.args[1], example.args[2], example.args[3]))
  /\ last' = [op |-> "apply"]
  /\ UNCHANGED <<world, clientVars, now, getters, renewer>>

IntegrityExamples ==
  StatusExamples \cup BodyExamples \cup AppendExamples \cup SignatureExamples

\* the functions of the integrity module, each on every argument of a bounded set
InitIntegrity ==
  /\ Start
  /\ renewer = NoRenewer
  /\ example \in IntegrityExamples
  /\ env = Configured
  /\ tokens = NoTokens
  /\ listGroups = <<>>
  /\ lists = <<>>

NextIntegrity ==
  \/ ApplyStatusMapping
  \/ ApplyHasGitHubIssueLink
  \/ ApplyAppendIssueLink
  \/ ApplyVerifySignature

SpecIntegrity == InitIntegrity /\ [][NextIntegrity]_vars

\* a deployment with every app setting in place
Init ==
  /\ Start
  /\ renewer = NoRenewer
  /\ example = NoExample
  /\ env = Configured
  /\ tokens = NoTokens
  /\ listGroups = <<[displayName |-> "acme"]>>
  /\ lists = <<UnmappedList, MappedList>>

\* the GitHub ingestor, with and without GITHUB_WEBHOOK_SECRET and Graph tokens
InitGithub ==
  /\ Start
  /\ renewer = NoRenewer
  /\ example = NoExample
  /\ env \in {Configured, [Configured EXCEPT !.GITHUB_WEBHOOK_SECRET = NoSecret],
              [Configured EXCEPT !.MS_TODO_TOKENS = FALSE]}
  /\ tokens = NoTokens
  /\ listGroups = <<[displayName |-> "acme"]>>
  /\ lists = <<UnmappedList>>

\* the To Do ingestor, with and without GRAPH_SUBSCRIPTION_SECRET, GITHUB_TOKEN
\* and Graph tokens
InitTodo ==
  /\ Start
  /\ renewer = NoRenewer
  /\ example = NoExample
  /\ env \in {Configured, [Configured EXCEPT !.GRAPH_SUBSCRIPTION_SECRET = NoSecret],
              [Configured EXCEPT !.GITHUB_TOKEN = FALSE],
              [Configured EXCEPT !.MS_TODO_TOKENS = FALSE]}
  /\ tokens = NoTokens
  /\ listGroups = <<[displayName |-> "other"], [displayName |-> "acme"]>>
  /\ lists = <<UnmappedList, [displayName |-> "widgets", groupId |-> 2]>>

\* the two capability clients: the token env vars set or not, GITHUB_TOKEN set or not
InitClient ==
  /\ Start
  /\ renewer = NoRenewer
  /\ example = NoExample
  /\ tokens \in { t \in TokenSettings : t.CLIENT_SECRET = (t.MS_TODO_REFRESH_TOKEN # NoRefresh) }
  /\ env \in { [Configured EXCEPT !.MS_TODO_TOKENS = (tokens.MS_TODO_ACCESS_TOKEN # NoToken
                                                       \/ tokens.MS_TODO_REFRESH_TOKEN # NoRefresh),
                                  !.GITHUB_TOKEN = g] : g \in BOOLEAN }
  /\ listGroups = <<>>
  /\ lists = <<>>

\* the token manager alone, under every combination of the token settings
InitTokens ==
  /\ Start
  /\ renewer = NoRenewer
  /\ example = NoExample
  /\ tokens \in TokenSettings
  /\ env = Configured
  /\ listGroups = <<>>
  /\ lists = <<>>

\* the two ingestors together: one delivery at a time, every call succeeding
Next ==
  \/ GithubWebhook
  \/ TodoWebhookSingle
  \/ JobStep(FALSE)
  \/ TodoRespond
  \/ UserCreatesTask
  \/ UserCompletesTask
  \/ UserOpensIssue
  \/ UserClosesIssue

\* the GitHub ingestor, its calls failing or not, and whoever posts to it
NextGithub ==
  \/ GithubEvent
  \/ GithubWebhookIgnored
  \/ GithubWebhookMalformed
  \/ GithubWebhookForged

\* the To Do ingestor, its calls failing or not, and the people on To Do
NextTodo ==
  \/ TodoWebhook
  \/ TodoWebhookOther
  \/ JobStep(TRUE)
  \/ TodoRespond
  \/ UserCreatesTask

Spec == Init /\ [][Next]_vars

SpecGithub == InitGithub /\ [][NextGithub]_vars

SpecTodo == InitTodo /\ [][NextTodo]_vars

\* requests through the two clients, one at a time, while tokens expire
NextClient ==
  \/ GraphRequestStart
  \/ GraphFetch
  \/ GraphReacquire
  \/ GitHubRequestStart
  \/ GitHubFetch
  \/ CallReturns
  \/ Tick

SpecClient == InitClient /\ [][NextClient]_vars

\* two callers of getTokens on one TokenManager, their awaits interleaving
NextTokens ==
  \/ \E p \in DOMAIN getters : GetTokensBegins(p)
  \/ \E p \in DOMAIN getters : RefreshResponds(p)
  \/ \E p \in DOMAIN getters : GetTokensReturns(p)
  \/ Tick

SpecTokens == InitTokens /\ [][NextTokens]_vars

\* ------------------------------------------------- claims: GitHub ingestor
\* the request carries 'sha256=' + HMAC-SHA256(shared secret, raw body)
Authentic(request) == request.sig = SignedBy(GhSecret, request.rawBody)

\* the response `l` answers a delivery of the 'issues' event with this action
DeliveryOf(l, action) ==
  /\ l.op = "github"
  /\ l.request.event = "issues"
  /\ l.request.rawBody.json
  /\ l.request.rawBody.missing = {}
  /\ l.request.rawBody.action = action

GroupsNamed(owner) == { g \in 1..Len(listGroups) : listGroups[g].displayName = owner }

\* the task's body holds the back-reference to the issue
LinkedTo(task, issueUrl) == Includes(task.body, <<ISSUE_LINK_MARKER, SP>> \o issueUrl)

\* C1: a request to the GitHub webhook endpoint whose x-hub-signature-256
\* header is missing, or is not 'sha256=' + HMAC-SHA256(shared secret, raw
\* body), is answered 401 and no Graph request is made for it.
C1_UnsignedRejected ==
  (last.op = "github" /\ ~Authentic(last.request))
    => (last.status = 401 /\ last.calls = {})

\* C5: once 'opened' has created the linked task and 'closed' has completed
\* it, a 'reopened' event for the same issue sets that task to 'notStarted'.
C5_ReopenedResetsTask ==
  [][ (DeliveryOf(last', "reopened") /\ Authentic(last'.request) /\ last'.fails = {})
        => \A t \in 1..Len(tasks) :
             ( /\ LinkedTo(tasks[t], last'.request.rawBody.issue.html_url)
               /\ tasks[t].status = "completed"
               /\ \A u \in 1..Len(tasks) :
                    LinkedTo(tasks[u], last'.request.rawBody.issue.html_url) => u = t )
             => tasks'[t].status = "notStarted" ]_vars

\* C6: an authenticated 'opened' event whose repository owner has a list
\* group, every Graph call succeeding, creates exactly one task: in a list
\* named after the repository inside that group, titled as the issue, its
\* body holding 'GitHub Issue: <html_url>'.  Whatever fails, an 'opened'
\* event never creates more than one task.
C6_OpenedCreatesOneTask ==
  [][ DeliveryOf(last', "opened") =>
        LET payload == last'.request.rawBody
            owner == payload.repository.owner
            repo == payload.repository.name
        IN /\ \/ tasks' = tasks
              \/ Len(tasks') = Len(tasks) + 1 /\ SubSeq(tasks', 1, Len(tasks)) = tasks
           /\ (Authentic(last'.request) /\ GroupsNamed(owner) # {} /\ last'.fails = {})
                => /\ Len(tasks') = Len(tasks) + 1
                   /\ SubSeq(tasks', 1, Len(tasks)) = tasks
                   /\ LET task == tasks'[Len(tasks')]
                      IN /\ task.listId \in 1..Len(lists')
                         /\ lists'[task.listId].displayName = repo
                         /\ lists'[task.listId].groupId \in GroupsNamed(owner)
                         /\ task.title = payload.issue.title
                         /\ LinkedTo(task, payload.issue.html_url) ]_vars

C6_Witness ==
  /\ DeliveryOf(last, "opened")
  /\ Authentic(last.request)
  /\ last.fails = {}
  /\ last.status = 200
  /\ Len(tasks) = 1
  /\ tasks[1].listId = last.listId
  /\ tasks[1].title = UserIssueTitle
  /\ LinkedTo(tasks[1], IssueUrl("acme", "widgets", 12))

\* C7: with a list group named owner that holds no list named repo,
\* findOrCreateListForRepo(owner, repo) creates exactly one list named repo in
\* that group and returns its id; with such a list there it creates nothing
\* and returns the id of one; called again with the same arguments right
\* after, it returns the same id and creates nothing (every call succeeding).
C7_FindOrCreateList ==
  [][ (DeliveryOf(last', "opened") /\ Authentic(last'.request) /\ last'.fails = {}
       /\ GroupsNamed(last'.request.rawBody.repository.owner) # {})
        => LET owner == last'.request.rawBody.repository.owner
               repo == last'.request.rawBody.repository.name
               group == Min(GroupsNamed(owner))
               there == { l \in 1..Len(lists) :
                            lists[l].groupId = group /\ lists[l].displayName = repo }
           IN /\ there = {}
                   => /\ lists' = Append(lists, [displayName |-> repo, groupId |-> group])
                      /\ last'.listId = Len(lists')
              /\ there # {}
                   => /\ lists' = lists
                      /\ last'.listId \in there
              /\ ( /\ DeliveryOf(last, "opened")
                   /\ last.request.rawBody.repository = last'.request.rawBody.repository
                   /\ last.fails = {}
                   /\ last.status = 200 )
                   => /\ last'.listId = last.listId
                      /\ lists' = lists ]_vars

C7_Witness ==
  /\ DeliveryOf(last, "opened")
  /\ last.fails = {}
  /\ lists = <<UnmappedList, [displayName |-> "widgets", groupId |-> 1]>>
  /\ last.listId = 2
  /\ Len(tasks) = 2
  /\ tasks[1].listId = 2
  /\ tasks[2].listId = 2

\* C8: no webhook event changes the list groups; an 'opened' event whose
\* owner is the displayName of no list group is answered 200 (when it is
\* authenticated) and creates no list and no task.
C8_NoGroupCreated ==
  [][ /\ listGroups' = listGroups
      /\ (DeliveryOf(last', "opened")
          /\ GroupsNamed(last'.request.rawBody.repository.owner) = {})
           => /\ lists' = lists
              /\ tasks' = tasks
              /\ Authentic(last'.request) => last'.status = 200 ]_vars

C8_Witness ==
  /\ DeliveryOf(last, "opened")
  /\ Authentic(last.request)
  /\ last.request.rawBody.repository.owner = "other"
  /\ last.fails = {}
  /\ last.status = 200
  /\ last.body = "No matching list group"
  /\ last.calls = {"GET listGroups"}
  /\ Len(tasks) = 1

\* -------------------------------------------------- claims: To Do ingestor
\* the entry is what Graph sends for a task created under the subscription
GenuineCreated(notification) ==
  notification.changeType = "created" /\ notification.clientState = GraphSecret

JobList(job) == lists[job.notification.listId]

\* this step is a step of processNotification for entry i of the batch
StepOf(i) == i \in DOMAIN jobs /\ i \in DOMAIN jobs' /\ jobs'[i] # jobs[i]

\* C2: the To Do webhook makes outbound requests for an entry only if its
\* changeType is 'created' and its clientState equals the shared secret;
\* the batch is answered 202.
C2_OnlyGenuineCreated ==
  /\ \A i \in DOMAIN jobs : jobs[i].calls # {} => GenuineCreated(jobs[i].notification)
  /\ (last.op = "todo" /\ last.kind = "batch") => last.status = 202

\* C3: once the 'created' notification of a task has been processed through
\* the successful write-back of the issue link, processing the same
\* notification again fetches the task and stops: no issue is created, the
\* task is unchanged.
C3_RedeliveryIdempotent ==
  [][ \A i \in DOMAIN jobs :
        (jobs[i].afterLink /\ GenuineCreated(jobs[i].notification) /\ StepOf(i))
          => /\ issues' = issues
             /\ tasks' = tasks
             /\ jobs'[i].pc = "done"
             /\ jobs'[i].calls \subseteq {"GET task"} ]_vars

C3_Witness ==
  \E i \in DOMAIN jobs :
    /\ jobs[i].afterLink
    /\ GenuineCreated(jobs[i].notification)
    /\ jobs[i].pc = "done"
    /\ jobs[i].calls = {"GET task"}
    /\ Len(issues) = 1
    /\ hasGitHubIssueLink(tasks[jobs[i].notification.taskId].body)

\* C9: a 'created' notification for a task in a list without a parent group
\* causes no create call on GitHub and no change to the task, and the batch
\* is answered 202.
C9_UnmappedListIgnored ==
  [][ /\ \A i \in DOMAIN jobs :
           ( /\ GenuineCreated(jobs[i].notification)
             /\ JobList(jobs[i]).groupId = NoGroup
             /\ StepOf(i) )
           => /\ issues' = issues
              /\ tasks' = tasks
              /\ jobs'[i].calls \subseteq {"GET task", "GET list"}
      /\ (last'.op = "todo" /\ last'.kind = "batch") => last'.status = 202 ]_vars

C9_Witness ==
  \E i \in DOMAIN jobs :
    /\ GenuineCreated(jobs[i].notification)
    /\ JobList(jobs[i]).groupId = NoGroup
    /\ jobs[i].pc = "done"
    /\ jobs[i].calls = {"GET task", "GET list"}
    /\ tasks[jobs[i].notification.taskId].body = UserTaskBody
    /\ issues = <<>>

\* the pair a list with a parent group stands for
OwnerRepoOf(list) ==
  [owner |-> listGroups[list.groupId].displayName, repo |-> list.displayName]

\* C10: the issue for a task created in a list with a parent group is created
\* in the repository whose owner is the group's displayName and whose name is
\* the list's displayName; resolveOwnerRepoFromList returns that pair, and
\* null for a list without a parent group.
C10_IssueInMappedRepo ==
  [][ /\ \A l \in 1..Len(lists) :
           resolveOwnerRepoFromList(l, {}) =
             IF lists[l].groupId = NoGroup THEN NoOwnerRepo ELSE OwnerRepoOf(lists[l])
      /\ \A i \in DOMAIN jobs :
           StepOf(i) =>
             /\ jobs'[i].pc = "create"
                  => /\ JobList(jobs[i]).groupId # NoGroup
                     /\ jobs'[i].ownerRepo = OwnerRepoOf(JobList(jobs[i]))
             /\ issues' # issues
                  => /\ JobList(jobs[i]).groupId # NoGroup
                     /\ Len(issues') = Len(issues) + 1
                     /\ SubSeq(issues', 1, Len(issues)) = issues
                     /\ issues'[Len(issues')].owner = OwnerRepoOf(JobList(jobs[i])).owner
                     /\ issues'[Len(issues')].repo = OwnerRepoOf(JobList(jobs[i])).repo ]_vars

C10_Witness ==
  /\ Len(issues) = 2
  /\ issues[2].owner = "acme"
  /\ issues[2].repo = "widgets"
  /\ \E i \in DOMAIN jobs :
       /\ jobs[i].pc = "patch"
       /\ jobs[i].notification.listId = 2
       /\ jobs[i].issueUrl = IssueUrl("acme", "widgets", 12)

\* ------------------------------------------------ claims: both ingestors
\* html_url of the n-th issue
UrlOf(n) == IssueUrl(issues[n].owner, issues[n].repo, IssueNumber(n))

\* the task's body holds the back-reference to exactly this issue (the
\* number is not the beginning of a longer one)
LinkedToExactly(task, issueUrl) ==
  LET ref == <<ISSUE_LINK_MARKER, SP>> \o issueUrl
  IN \E i \in 0..(Len(task.body) - Len(ref)) :
       /\ SubSeq(task.body, i + 1, i + Len(ref)) = ref
       /\ i + Len(ref) < Len(task.body) => ~IsDigit(task.body[i + Len(ref) + 1])

\* every webhook event that was triggered has been processed
Quiescent == ghQueue = {} /\ notifQueue = {} /\ ~running

\* C4: once a commitment made on one platform is linked to its counterpart
\* on the other and the triggered webhook events are processed, a closed
\* issue has its linked task 'completed' and a completed task has its linked
\* issue 'closed'.
C4_RoundTrip ==
  Quiescent =>
    \A t \in 1..Len(tasks), n \in 1..Len(issues) :
      LinkedToExactly(tasks[t], UrlOf(n))
        => /\ issues[n].state = "closed" => tasks[t].status = "completed"
           /\ tasks[t].status = "completed" => issues[n].state = "closed"

\* ------------------------------------------- claims: To Do endpoint
\* the response `l` answers a request that the endpoint did not dispatch
AnsweredAtOnce(l) == l.op = "todo" /\ l.kind # "batch"

\* C11: every GET or POST request to the To Do webhook endpoint that carries
\* a validationToken query parameter is answered 200, text/plain, with a body
\* equal to the token.
C11_ValidationEchoed ==
  (AnsweredAtOnce(last) /\ last.request.validationToken # "")
    => /\ last.status = 200
       /\ last.contentType = "text/plain"
       /\ last.body = last.request.validationToken

\* C12: a failure while one entry of a batch is processed (an exception or a
\* failed outbound call) leaves every other entry's processing untouched and
\* able to go on to its end, and the batch is answered 202 once all entries
\* have ended.
C12_FailureIsolated ==
  [][ /\ \A i \in DOMAIN jobs :
           StepOf(i) => \A j \in DOMAIN jobs \ {i} : j \in DOMAIN jobs' /\ jobs'[j] = jobs[j]
      /\ \A j \in DOMAIN jobs : jobs[j].pc # "done" => ENABLED JobStepOf(j, TRUE)
      /\ (running /\ ~running')
           => /\ \A j \in DOMAIN jobs : jobs[j].pc = "done"
              /\ last'.op = "todo" /\ last'.kind = "batch" /\ last'.status = 202 ]_vars

\* one entry's issue creation threw, the other entry went through to its write-back
C12_Witness ==
  \E i, j \in DOMAIN jobs :
    /\ i # j
    /\ jobs[i].threw
    /\ jobs[j].pc = "done"
    /\ "PATCH task body" \in jobs[j].calls
    /\ jobs[j].notification.taskId \in linkWritten

\* C13: the To Do webhook endpoint can return its 202 as soon as the entries'
\* processing has been dispatched, whether or not their outbound calls have
\* finished.
C13_RespondsAfterDispatch ==
  (running /\ \E i \in DOMAIN jobs : jobs[i].pc # "done") => ENABLED TodoRespond

\* ------------------------------------------- claims: GitHub endpoint
\* the handler gets past its signature check and JSON.parse
Accepted(request) ==
  /\ Truthy(env.GITHUB_WEBHOOK_SECRET)
       => verifySignature(env.GITHUB_WEBHOOK_SECRET, request.rawBody, request.sig)
  /\ request.rawBody.json

\* an 'issues' event with one of the three actions the engine reacts to
Recognised(request) ==
  request.event = "issues" /\ request.rawBody.action \in {"opened", "closed", "reopened"}

\* C14: an authenticated request to the GitHub webhook whose body is not
\* JSON, or whose JSON lacks action, issue or issue.html_url, is answered
\* with a 4xx status and causes no Graph request.
C14_MalformedRejected ==
  ( /\ last.op = "github"
    /\ Authentic(last.request)
    /\ ~last.request.rawBody.json \/ last.request.rawBody.missing # {} )
    => last.status \in 400..499 /\ last.calls = {}

\* C15: the GitHub ingestor issues a Graph request only for an 'issues'
\* event whose action is opened, closed or reopened; every other event type
\* and every other action it accepts is answered 200 with no Graph request
\* and changes no list and no task.
C15_OnlyIssueActions ==
  [][ last'.op = "github" =>
        /\ last'.calls # {} => Recognised(last'.request)
        /\ (Accepted(last'.request) /\ ~Recognised(last'.request))
             => /\ last'.status = 200
                /\ last'.calls = {}
                /\ tasks' = tasks
                /\ lists' = lists
                /\ notifQueue' = notifQueue ]_vars

\* a pull request is opened while a task for an issue exists
C15_Witness ==
  /\ last.op = "github"
  /\ last.request.event = "pull_request"
  /\ last.request.rawBody.action = "opened"
  /\ last.status = 200
  /\ last.calls = {}
  /\ Len(tasks) = 1
  /\ tasks[1].status = "notStarted"

\* C16: when no Graph access token can be acquired, a delivery that needs a
\* Graph call is answered with a 5xx status.
C16_NoCredentialIs5xx ==
  ( /\ last.op = "github"
    /\ ~env.MS_TODO_TOKENS
    /\ last.calls # {} )
    => last.status \in 500..599

\* ------------------------------------------- claims: capability clients
\* the call has returned to its caller
Done(c, client) == c.client = client /\ c.pc = "done"

\* the status of the last attempt the call sent
FinalStatus(c) == c.sent[Len(c.sent)].status

\* the call ended on a 204 answer
NoContent(c) == c.sent # <<>> /\ FinalStatus(c) = 204

\* the call failed: no credential, a network error, or a non-2xx answer
Failed(c) == c.sent = <<>> \/ FinalStatus(c) \notin 200..299

\* the call ended on a non-2xx answer, with or without the mailbox error code
ErrorAnswer(c, mailbox) ==
  /\ c.sent # <<>>
  /\ FinalStatus(c) \notin 200..299 \cup {FetchRejects}
  /\ c.response.mailbox = mailbox

\* C17: a GraphClient.request whose first attempt is answered 401 asks for
\* the credential exactly once more and, whenever it obtains one, sends the
\* request exactly once more, with that credential.
C17_RetryOnceAfter401 ==
  (Done(call, "graph") /\ call.sent # <<>> /\ call.sent[1].status = 401)
    => /\ call.acquired = 2
       /\ call.newToken # NoToken
            => Len(call.sent) = 2 /\ call.sent[2].token = call.newToken

\* C18: a capability client sends a second attempt only after a 401 on the
\* first one and never a third; a 401 on the retry, and any other non-2xx
\* status on any attempt, ends the call as a failure at once.
C18_AtMostOneRetry ==
  [][ /\ Len(call'.sent) <= 2
      /\ Len(call'.sent) = 2 => call'.client = "graph" /\ call'.sent[1].status = 401
      /\ Len(call'.sent) > Len(call.sent)
           => LET status == FinalStatus(call')
              IN (status \notin 200..299 /\ (status # 401 \/ Len(call'.sent) = 2))
                   => /\ call'.pc = "done"
                      /\ call'.outcome.kind = IF call'.client = "graph" THEN "null"
                                              ELSE "throw" ]_vars

\* the retry, sent with a refreshed token, was answered 401 as well
C18_Witness ==
  /\ Done(call, "graph")
  /\ Len(call.sent) = 2
  /\ call.sent[1].status = 401
  /\ call.sent[2].status = 401
  /\ call.sent[2].token # call.sent[1].token
  /\ call.outcome = Null

\* C19: what a caller gets for a 204 answer differs from what it gets from
\* the same client for a failed request.
C19_NoContentDistinct ==
  \A client \in {"graph", "github"} :
    (Done(previous, client) /\ Done(call, client) /\ NoContent(previous) /\ Failed(call))
      => previous.outcome # call.outcome

\* C20: what the caller of GraphClient.request gets for a non-2xx answer
\* whose body holds 'MailboxNotEnabledForRESTAPI' differs from what it gets
\* for any other non-2xx answer.
C20_MailboxDistinct ==
  ( /\ Done(previous, "graph") /\ ErrorAnswer(previous, TRUE)
    /\ Done(call, "graph") /\ ErrorAnswer(call, FALSE) )
    => previous.outcome # call.outcome

\* ------------------------------------------- claims: token manager
\* caller p enters getTokens in this step
BeginOf(p) == getters[p].pc = "idle" /\ getters'[p].pc # "idle"

\* the refresh of caller p ends in this step
RefreshEndOf(p) == getters[p].pc = "refresh" /\ getters'[p].pc = "returned"

\* the credential that the access-token settings describe
EnvTokenData ==
  TokenData(tokens.MS_TODO_ACCESS_TOKEN, tokens.MS_TODO_REFRESH_TOKEN,
            tokens.MS_TODO_TOKEN_EXPIRES_AT)

CacheFresh == tokens.cachedToken # NoTokenData /\ Fresh(tokens.cachedToken.expiresAt, now)

EnvFresh == tokens.MS_TODO_ACCESS_TOKEN # NoToken /\ Fresh(tokens.MS_TODO_TOKEN_EXPIRES_AT, now)

\* C21: whenever a cached credential exists and now < expiresAt - 5 minutes,
\* getTokens returns the cached credential, makes no refresh-grant exchange
\* and leaves the cache unchanged.
C21_CachedReturned ==
  [][ \A p \in DOMAIN getters :
        (BeginOf(p) /\ CacheFresh)
          => /\ getters'[p].pc = "returned"
             /\ getters'[p].result = tokens.cachedToken
             /\ getters'[p].exchanges = 0
             /\ tokens' = tokens ]_vars

\* a refreshed credential is handed out again from the cache
C21_Witness ==
  \E p \in DOMAIN getters :
    /\ getters[p].pc = "returned"
    /\ getters[p].exchanges = 0
    /\ getters[p].result = tokens.cachedToken
    /\ getters[p].seen = tokens.cachedToken.accessToken
    /\ tokens.cachedToken.accessToken > EnvToken

\* C22: every credential that getTokens returns satisfies
\* now < expiresAt - 5 minutes at the moment it is returned.
C22_ReturnedFresh ==
  \A p \in DOMAIN getters :
    (getters[p].pc = "returned" /\ getters[p].result # NoTokenData)
      => Fresh(getters[p].result.expiresAt, getters[p].at)

\* C23 as claimed: the cache changes only as the result of a successful
\* refresh-grant exchange.
C23_OnlyRefreshChangesCache ==
  [][ tokens'.cachedToken # tokens.cachedToken
        => \E p \in DOMAIN getters :
             /\ RefreshEndOf(p)
             /\ getters'[p].exchanges = 1
             /\ getters'[p].result = tokens'.cachedToken ]_vars

\* C23 amended: the cache changes only as the result of a successful
\* refresh-grant exchange or of the bootstrap from a valid access token in
\* the environment when the cache holds no valid credential; a failed
\* refresh and a call that finds a valid cached credential leave it as it was.
C23_CacheChanges ==
  [][ /\ tokens'.cachedToken # tokens.cachedToken
           => \E p \in DOMAIN getters :
                \/ /\ RefreshEndOf(p)
                   /\ getters'[p].exchanges = 1
                   /\ getters'[p].result = tokens'.cachedToken
                \/ /\ BeginOf(p)
                   /\ ~CacheFresh
                   /\ EnvFresh
                   /\ getters'[p].pc = "returned"
                   /\ tokens'.cachedToken = EnvTokenData
      /\ \A p \in DOMAIN getters :
           (RefreshEndOf(p) /\ getters'[p].result = NoTokenData)
             => tokens'.cachedToken = tokens.cachedToken ]_vars

\* the exchange failed and the credential cached before is still there
C23_Witness ==
  \E p \in DOMAIN getters :
    /\ getters[p].pc = "returned"
    /\ getters[p].exchanges = 1
    /\ getters[p].result = NoTokenData
    /\ tokens.cachedToken # NoTokenData

\* C24: with no refresh token in the environment or in the cache, and no
\* cached or environment access token valid with the buffer, getTokens
\* returns null without calling the token endpoint.
C24_NoCredentialFails ==
  [][ \A p \in DOMAIN getters :
        ( /\ BeginOf(p)
          /\ tokens.MS_TODO_REFRESH_TOKEN = NoRefresh
          /\ tokens.cachedToken.refreshToken = NoRefresh
          /\ ~CacheFresh
          /\ ~EnvFresh )
          => /\ getters'[p].pc = "returned"
             /\ getters'[p].result = NoTokenData
             /\ getters'[p].exchanges = 0
             /\ tokens' = tokens ]_vars

\* the access token of the environment has expired and there is nothing to refresh with
C24_Witness ==
  \E p \in DOMAIN getters :
    /\ getters[p].pc = "returned"
    /\ getters[p].result = NoTokenData
    /\ getters[p].exchanges = 0
    /\ tokens.MS_TODO_REFRESH_TOKEN = NoRefresh
    /\ tokens.CLIENT_SECRET
    /\ tokens.cachedToken = EnvTokenData
    /\ tokens.cachedToken # NoTokenData
    /\ ~CacheFresh

\* C25: however two getTokens calls interleave, the cache holds nothing, the
\* credential of the environment, or the credential made from one token
\* response, whole; every caller gets such a credential or null; and when
\* both callers refreshed side by side the cache holds the credential one
\* of them installed.
C25_RefreshAtomic ==
  LET whole == {NoTokenData, EnvTokenData} \cup tokens.granted
  IN /\ tokens.cachedToken \in whole
     /\ \A p \in DOMAIN getters : getters[p].pc = "returned" => getters[p].result \in whole
     /\ ( /\ \A p \in DOMAIN getters :
               /\ getters[p].pc = "returned"
               /\ getters[p].exchanges = 1
               /\ getters[p].result # NoTokenData
          /\ getters[1].seen = getters[2].seen )
          => tokens.cachedToken \in { getters[p].result : p \in DOMAIN getters }

\* both callers found the cache expired and each made its own exchange
C25_Witness ==
  /\ \A p \in DOMAIN getters :
       /\ getters[p].pc = "returned"
       /\ getters[p].exchanges = 1
       /\ getters[p].result # NoTokenData
  /\ getters[1].seen = getters[2].seen
  /\ getters[1].seen # NoToken
  /\ getters[1].result # getters[2].result
  /\ tokens.cachedToken = getters[1].result

\* ------------------------------------------- claims: duplicate creation
\* entries i and j of the batch in progress are deliveries of one notification
Duplicates(i, j) ==
  /\ i # j
  /\ jobs[i].notification = jobs[j].notification
  /\ GenuineCreated(jobs[i].notification)

\* the task the entry is about, as To Do holds it now
TaskOf(job) == tasks[job.notification.taskId]

\* C26: two deliveries of one 'created' notification processed side by side
\* can both read the task before either wrote the back-reference, and the
\* issue one of them has created does not keep the other from creating its
\* own: two issues for one task.
C26_DuplicateNotPrevented ==
  \A i, j \in DOMAIN jobs :
    ( /\ Duplicates(i, j)
      /\ jobs[j].pc = "patch"
      /\ jobs[i].pc = "create"
      /\ Len(issues) < MaxIssues )
      => ENABLED ( /\ JobCreate(i, TRUE)
                   /\ Len(issues') = Len(issues) + 1
                   /\ jobs'[i].pc = "patch"
                   /\ jobs'[i].issueUrl # jobs[j].issueUrl )

\* both deliveries have created an issue for the one task; neither has written back
C26_Witness ==
  \E i, j \in DOMAIN jobs :
    /\ Duplicates(i, j)
    /\ jobs[i].pc = "patch" /\ jobs[j].pc = "patch"
    /\ jobs[i].task = jobs[j].task
    /\ ~hasGitHubIssueLink(jobs[i].task.body)
    /\ jobs[i].issueUrl # jobs[j].issueUrl
    /\ Len(issues) = 2
    /\ Len(tasks) = 1

\* C27: when the PATCH that writes the back-reference fails after the issue
\* was created, the issue stays and the task body is left without a
\* back-reference; and a later delivery of the 'created' notification of a
\* task whose body holds no reference goes on past the fetch and creates an
\* issue, whatever issues exist already.
C27_FailedPatchThenDuplicate ==
  \A i \in DOMAIN jobs :
    /\ ( /\ jobs[i].pc = "done"
         /\ "PATCH task body" \in jobs[i].calls
         /\ jobs[i].notification.taskId \notin linkWritten )
         => /\ ~hasGitHubIssueLink(TaskOf(jobs[i]).body)
            /\ ~jobs[i].threw
            /\ issues # <<>>
    /\ ( /\ jobs[i].pc = "fetch"
         /\ GenuineCreated(jobs[i].notification)
         /\ jobs[i].notification.taskId \in 1..Len(tasks)
         /\ TaskOf(jobs[i]).listId = jobs[i].notification.listId
         /\ ~hasGitHubIssueLink(TaskOf(jobs[i]).body)
         /\ env.MS_TODO_TOKENS )
         => ENABLED (JobFetch(i, TRUE) /\ jobs'[i].pc = "resolve")
    /\ (jobs[i].pc = "create" /\ Len(issues) < MaxIssues)
         => ENABLED (JobCreate(i, TRUE) /\ Len(issues') = Len(issues) + 1)

\* the first issue's write-back failed; the notification, delivered again on
\* its own, has led to a second issue for the task
C27_Witness ==
  /\ Len(tasks) = 1
  /\ Len(issues) = 2
  /\ linkWritten = {}
  /\ ~hasGitHubIssueLink(tasks[1].body)
  /\ Len(jobs) = 1
  /\ jobs[1].pc = "patch"
  /\ GenuineCreated(jobs[1].notification)
  /\ jobs[1].issueUrl = UrlOf(2)

\* C28: a back-reference to an issue, once in a task body, is in that body
\* in every later state.
C28_LinkNeverReplaced ==
  [][ \A t \in 1..Len(tasks), n \in 1..Len(issues) :
        LinkedToExactly(tasks[t], UrlOf(n)) => LinkedToExactly(tasks'[t], UrlOf(n)) ]_vars

\* ------------------------------------------- claims: subscription renewer
\* the run of this twelve-hour slot has ended
RunEnded == renewer.pc = "idle" /\ renewer.ran

\* C29: in each run the renewer makes exactly one extend-lease call, with
\* expiry now + 4230 minutes, for every configured subscription id, whether
\* or not the calls for earlier ids failed.
C29_OneCallPerSubscription ==
  LET ids == subscriptionIds(renewer.idsEnv)
      made == IF RunEnded THEN Len(ids) ELSE IF renewer.pc = "loop" THEN renewer.index - 1 ELSE 0
  IN /\ renewer.pc = "loop" => renewer.subscriptionIds = ids
     /\ (RunEnded \/ renewer.pc = "loop")
          => /\ Len(renewer.calls) = made
             /\ \A k \in 1..made :
                  /\ renewer.calls[k].id = ids[k]
                  /\ renewer.calls[k].expirationDateTime = renewer.clock + 4230
     /\ RunEnded
          => \A id \in Subscriptions :
               Cardinality({ k \in 1..Len(renewer.calls) : renewer.calls[k].id = id })
                 = IF \E k \in 1..Len(renewer.idsEnv) : <<renewer.idsEnv[k]>> = id THEN 1 ELSE 0

\* the call for the first id failed, the second id was renewed all the same
C29_Witness ==
  /\ RunEnded
  /\ Len(renewer.calls) = 2
  /\ renewer.calls[1].result = "null"
  /\ renewer.calls[2].result = "value"
  /\ renewer.leases[renewer.calls[2].id] = renewer.clock + 4230
  /\ renewer.runs > 1

\* C30: a lease renewed in some run has not lapsed while fewer than two
\* further runs have taken place, nor when the second of them takes place:
\* one failed attempt never lets it lapse.
C30_SurvivesTwoRuns ==
  \A id \in renewer.renewed :
    ( \/ renewer.since[id] < 2
      \/ renewer.since[id] = 2 /\ (renewer.ran \/ renewer.pc = "loop") )
      => renewer.clock < renewer.leases[id]

\* two runs after the renewal have both failed and the lease is still alive
C30_Witness ==
  \E id \in renewer.renewed :
    /\ renewer.since[id] = 2
    /\ RunEnded
    /\ renewer.clock < renewer.leases[id]
    /\ renewer.leases[id] = renewer.clock - 2 * RENEW_INTERVAL + SUBSCRIPTION_EXPIRY_MINUTES

\* ------------------------------------------- claims: integrity functions
\* the reference table of the status mapping
ReferenceStatus ==
  { <<"plan", "notStarted", "open">>, <<"track", "inProgress", "open">>,
    <<"complete", "completed", "closed">>, <<"archive", "completed", "closed">> }

ReferencePhase == { <<"opened", "plan">>, <<"reopened", "plan">>, <<"closed", "complete">> }

\* C31: both tables are defined for all four phases and equal the reference
\* table (Plan: notStarted / open, Track: inProgress / open, Complete and
\* Archive: completed / closed); githubActionToGoalPhase is opened -> Plan,
\* reopened -> Plan, closed -> Complete; and githubActionToTodoStatus is the
\* To Do table applied to that phase.
C31_StatusMapping ==
  /\ DOMAIN PHASE_TO_TODO_STATUS = SmartGoalPhase
  /\ DOMAIN PHASE_TO_GITHUB_STATE = SmartGoalPhase
  /\ (example.applied /\ example.fn = "phase")
       => <<example.args[1], example.result.todo, example.result.github>> \in ReferenceStatus
  /\ (example.applied /\ example.fn = "action")
       => /\ <<example.args[1], example.result.phase>> \in ReferencePhase
          /\ \E row \in ReferenceStatus :
               row[1] = example.result.phase /\ row[2] = example.result.todo

\* the Archive row has been looked up in both tables
C31_Witness ==
  /\ example.applied
  /\ example.fn = "phase"
  /\ example.args = <<"archive">>
  /\ example.result.todo = "completed"
  /\ example.result.github = "closed"

\* a URL of the shape https://github.com/<owner>/<repo>/issues/<number> begins at position i
IssueUrlAt(s, i) ==
  /\ i + 7 <= Len(s)
  /\ s[i] = GITHUB_HOST
  /\ ~HasSlash(s[i + 1])
  /\ s[i + 2] = SLASH
  /\ ~HasSlash(s[i + 3])
  /\ s[i + 4] = SLASH
  /\ s[i + 5] = ISSUES_WORD
  /\ s[i + 6] = SLASH
  /\ IsDigit(s[i + 7])

\* the marker 'GitHub Issue:' followed, after blanks if any, by such a URL
MarkedLink(s) ==
  \E m \in 1..Len(s), i \in 1..Len(s) :
    /\ s[m] = ISSUE_LINK_MARKER
    /\ m < i
    /\ \A k \in (m + 1)..(i - 1) : IsWhitespace(s[k])
    /\ IssueUrlAt(s, i)

\* C32: hasGitHubIssueLink(body) is true exactly when body contains the
\* marker 'GitHub Issue:' followed by a URL of the shape
\* https://github.com/<owner>/<repo>/issues/<number>.
C32_LinkedIffMarkedUrl ==
  (example.applied /\ example.fn = "hasGitHubIssueLink")
    => (example.result <=> MarkedLink(example.args[1]))

IsPrefix(a, b) == Len(a) <= Len(b) /\ SubSeq(b, 1, Len(a)) = a

IsSuffix(a, b) == Len(a) <= Len(b) /\ SubSeq(b, Len(b) - Len(a) + 1, Len(b)) = a

\* C33: appendIssueLink(b, u) has b as a prefix and ends with
\* 'GitHub Issue: ' followed by u, so nothing of b is overwritten or
\* removed; for an empty b the result is exactly 'GitHub Issue: ' and u.
C33_AppendKeepsBody ==
  (example.applied /\ example.fn = "appendIssueLink")
    => LET b == example.args[1]
           u == example.args[2]
       IN /\ IsPrefix(b, example.result)
          /\ IsSuffix(<<ISSUE_LINK_MARKER, SP>> \o u, example.result)
          /\ Len(example.result) >= Len(b) + Len(u) + 2
          /\ b = <<>> => example.result = <<ISSUE_LINK_MARKER, SP>> \o u

\* a link was appended to a body that ends in a line break and holds a link already
C33_Witness ==
  /\ example.applied
  /\ example.fn = "appendIssueLink"
  /\ example.args[1] = <<"note", NL, NL, ISSUE_LINK_MARKER, SP>> \o IssueUrl("acme", "widgets", 1)
                          \o <<NL, NL, "desc">>
  /\ example.args[2] = IssueUrl("acme", "widgets", 12)
  /\ IsPrefix(example.args[1], example.result)
  /\ Len(example.result) = Len(example.args[1]) + 4 + Len(example.args[2])

\* C34: verifySignature(secret, rawBody, header) is true if and only if
\* header is 'sha256=' followed by the hexadecimal HMAC-SHA256 of rawBody
\* under secret; a header made for a body or with a secret that differs, a
\* header with one character changed, a missing header, a header without
\* the prefix and a header of another length all give false, never an
\* exception.
C34_SignatureExact ==
  (example.applied /\ example.fn = "verifySignature")
    => LET secret == example.args[1]
           rawBody == example.args[2]
           header == example.args[3]
       IN /\ example.result \in BOOLEAN
          /\ example.result
               <=> /\ header.prefix = "sha256="
                   /\ header.digest = Hmac(secret, rawBody)
                   /\ header.changed = 0
                   /\ header.length = HEX_LENGTH
          /\ header.digest.msg # rawBody => ~example.result
          /\ header.digest.key # secret => ~example.result
          /\ header = MissingHeader => ~example.result

\* the signature of the body with one byte changed was presented and refused
C34_Witness ==
  /\ example.applied
  /\ example.fn = "verifySignature"
  /\ example.args[1] = GhSecret
  /\ example.args[2] = ForgedPayload("opened")
  /\ example.args[3] = SignedBy(GhSecret, ForgedPayload("openee"))
  /\ example.result = FALSE

\* ------------------------------------------- claims: duplicates and echoes
\* the issue URLs GitHub can report
ReportedUrls == { p.issue.html_url : p \in GithubPayloads({"opened"}) }

\* C35: with the webhook secret configured, after any sequence of 'opened'
\* deliveries, the same one delivered again included, no two tasks embed a
\* back-reference to the same issue URL.
C35_OneTaskPerIssue ==
  env.GITHUB_WEBHOOK_SECRET = GhSecret
    => \A t, u \in 1..Len(tasks), url \in ReportedUrls :
         (LinkedToExactly(tasks[t], url) /\ LinkedToExactly(tasks[u], url)) => t = u

\* tasks that somebody wrote on To Do, and tasks the engine made from an issue
UserTasks == { t \in 1..Len(tasks) : ~IsPrefix(<<ISSUE_LINK_MARKER>>, tasks[t].body) }

\* issues that somebody wrote on GitHub
UserIssues == { n \in 1..Len(issues) : issues[n].title = UserIssueTitle }

\* C36: starting from a single task created in a mapped list, deliveries
\* processed one after the other and every call succeeding, once the chain
\* of deliveries set off by the engine's own writes has run dry the
\* commitment is one To Do task and one GitHub issue.
C36_ChainEndsOneToOne ==
  ( /\ Quiescent
    /\ Cardinality(UserTasks) = 1
    /\ \A t \in UserTasks : lists[tasks[t].listId] = MappedList
    /\ UserIssues = {} )
    => Len(tasks) = 1 /\ Len(issues) = 1

\* C37: a 'closed' or 'reopened' event for issue URL U changes at most one
\* task, only its status, and only if the back-reference in its body is
\* exactly U.
C37_OnlyExactLinkUpdated ==
  [][ (DeliveryOf(last', "closed") \/ DeliveryOf(last', "reopened"))
        => /\ Len(tasks') = Len(tasks)
           /\ Cardinality({ t \in 1..Len(tasks) : tasks'[t] # tasks[t] }) <= 1
           /\ \A t \in 1..Len(tasks) :
                /\ tasks'[t].body = tasks[t].body
                /\ tasks'[t] # tasks[t]
                     => LinkedToExactly(tasks[t], last'.request.rawBody.issue.html_url) ]_vars

\* C38: once an exchange has returned a rotated refresh token, every
\* exchange begun later presents that token, also when
\* MS_TODO_REFRESH_TOKEN is set.
C38_LatestRefreshTokenUsed ==
  [][ \A p \in DOMAIN getters :
        ( /\ BeginOf(p)
          /\ getters'[p].pc = "refresh"
          /\ tokens.cachedToken.refreshToken = RotatedRefresh )
          => getters'[p].refreshToken = RotatedRefresh ]_vars

\* C39: the GitHub ingestor answers 'Task created' or 'Task updated' only
\* if the Graph request that creates or updates the task succeeded.
C39_AcknowledgedOnlyIfDone ==
  (last.op = "github" /\ last.body \in {"Task created", "Task updated"})
    => last.fails \cap {"POST task", "PATCH task status"} = {}

====
